---- MODULE Spec2Model ----
(***************************************************************************)
(* A model of the fashion-trend scraper pipeline:                          *)
(*   - run_scrapers.run_all_scrapers (the orchestrator) with               *)
(*     BaseScraper.run / log_scrape / save_* and the four tables of        *)
(*     database/db.py                                  (specification Spec)*)
(*   - BaseScraper.fetch under its tenacity retry decorator                *)
(*                                                (specification SpecFetch)*)
(*   - the bestseller collection loops of the platform adapters            *)
(*                                              (specification SpecCollect)*)
(*   - the network requests and sleeps of one adapter invocation           *)
(*                                             (specification SpecRequests)*)
(*   - the per-record parsers of the adapters     (specification SpecParse)*)
(*   - pages/06_analysis.normalize_category   (specification SpecNormalize)*)
(***************************************************************************)
EXTENDS Integers, Sequences, FiniteSets, TLC

VARIABLES
    \* ---- orchestrator (run_scrapers.py) and store (database/db.py)
    pc,                  \* position of run_all_scrapers
    idx,                 \* index into the import list, then into scraper_classes
    scraper_classes,     \* run_scrapers.py:14, the adapters whose import succeeded
    results,             \* run_scrapers.py:11, platform -> outcome
    scraper,             \* the adapter instance of the current invocation
    total,               \* the local "total" of scrape()
    exc,                 \* the exception in flight, if any
    open_clients,        \* httpx clients created (base.py:39) and not yet closed
    today,               \* the last value date.today() returned
    runs,                \* pipeline runs started so far
    faults,              \* failures injected so far (bounded by MaxFaults)
    bestseller_rankings, \* table rows, in insertion order
    keyword_rankings,
    instagram_metrics,
    scrape_log,
    written,             \* history: rows the current invocation has committed
    invoked,             \* history: platform -> rows committed by its invocation in this run
    events,              \* history: constructor calls, constructor exceptions and run() calls of this run
    \* ---- BaseScraper.fetch (scrapers/base.py:59-67)
    f_pc,                \* "off", "idle", "attempt", "sleep", "returned", "raised"
    attempt_number,      \* tenacity's retry_state.attempt_number
    f_waits,             \* history: the sleeps between attempts, in order
    f_outcomes,          \* history: the outcome of each attempt, in order
    \* ---- bestseller collection of one adapter (scrapers/*.py)
    adapter,             \* the adapter whose scrape_bestsellers is running
    c_pc,                \* "off", "loop", "done"
    request_count,       \* requests issued so far
    all_items,           \* the list being built (all_items / items in the source)
    seen_urls,           \* musinsa.py:143
    rank,                \* the running rank counter (zigzag.py:181)
    cursor,              \* zigzag.py:180
    first_seen,          \* history: the non-empty URLs of the parsed records, each at its first occurrence
    repeats,             \* history: parsed records whose non-empty URL had occurred before
    \* ---- requests and sleeps of one adapter invocation (scrapers/*.py)
    q_adapter,           \* the adapter whose run() is in progress
    q_pc,                \* position inside scrape(): "main", "categories", "sub", "keywords", "return", "done"
    q_i,                 \* iterations of the current loop done so far
    q_categories,        \* twentynine_cm.py:139, the category listing fetch_categories returned
    q_cursor,            \* zigzag.py:180, the cursor the next request carries
    q_log,               \* history: the requests issued, in order
    q_last,              \* history: the last of "request" / "delay" that happened ("none" before)
    q_requests,          \* history: requests issued
    q_failures,          \* history: requests that ended with a transport error
    q_attempts,          \* history: HTTP attempts made for the last request
    q_adjacent,          \* history: two requests followed each other with no sleep between
    q_bestsellers,       \* len(bestsellers) as scrape() sees it (capped at 1)
    q_saved,             \* history: which of save_bestsellers / save_keywords ran
    q_status,            \* "running", then the status run() logged and the orchestrator stored
    \* ---- one parser applied to the records of one response
    p_parser,            \* the parser, by adapter
    p_records,           \* the raw records of the response
    p_items,             \* the list the parser loop returned
    p_pc,                \* "parse", "save", "saved", "raised"
    \* ---- normalize_category (pages/06_analysis.py:59-70)
    n_raw,               \* the argument
    n_result,            \* the value returned ("unset" before the call)
    \* ---- AblyScraper._parse_dom (scrapers/ably.py:296-377)
    d_pc,                \* "off", "parse", "returned"
    d_matches,           \* what page.query_selector_all returns for each selector, in order
    d_items,             \* the list _parse_dom returned
    d_debug,             \* the debug HTML file: "none", "written", "failed"
    \* ---- one save call under get_connection (database/db.py:15-29)
    t_pc,                \* "off", "connect", "pragma", "body", "commit", "rollback", "close", "done"
    t_rows,              \* the rows the call inserts
    t_store,             \* the committed rows of the table
    t_txn,               \* the rows inserted in the open transaction
    t_conn,              \* the connection: "none", "open", "closed"
    t_exc,               \* the statement that raised ("none": no exception)
    t_before,            \* history: the committed rows when the call started
    \* ---- scheduler.main (scheduler.py:26-57)
    h_pc,                \* "off", "main", "pending", "job", "run", "sleep", "exited"
    h_mode,              \* "now" (--now given) or "loop"
    h_now,               \* the clock, in sleeps of the loop
    h_next,              \* schedule: job -> its next_run
    h_queue,             \* the runnable jobs of the current run_pending, in order
    h_active,            \* pipeline runs in progress
    h_started,           \* history: pipeline runs started
    h_outcomes,          \* history: how each finished pipeline run ended
    h_pending_at         \* history: the clock when the last run_pending started

vars == <<pc, idx, scraper_classes, results, scraper, total, exc, open_clients, today, runs, faults,
          bestseller_rankings, keyword_rankings, instagram_metrics, scrape_log,
          written, invoked, events,
          f_pc, attempt_number, f_waits, f_outcomes,
          adapter, c_pc, request_count, all_items, seen_urls, rank, cursor,
          first_seen, repeats,
          q_adapter, q_pc, q_i, q_categories, q_cursor, q_log, q_last, q_requests, q_failures, q_attempts,
          q_adjacent, q_bestsellers, q_saved, q_status,
          p_parser, p_records, p_items, p_pc,
          n_raw, n_result,
          d_pc, d_matches, d_items, d_debug,
          t_pc, t_rows, t_store, t_txn, t_conn, t_exc, t_before,
          h_pc, h_mode, h_now, h_next, h_queue, h_active, h_started, h_outcomes,
          h_pending_at>>

orch_vars == <<pc, idx, scraper_classes, results, scraper, total, exc, open_clients, today, runs, faults,
               bestseller_rankings, keyword_rankings, instagram_metrics, scrape_log,
               written, invoked, events>>
fetch_vars == <<f_pc, attempt_number, f_waits, f_outcomes>>
collect_vars == <<adapter, c_pc, request_count, all_items, seen_urls, rank, cursor,
          first_seen, repeats>>
req_vars == <<q_adapter, q_pc, q_i, q_categories, q_cursor, q_log, q_last, q_requests, q_failures, q_attempts,
              q_adjacent, q_bestsellers, q_saved, q_status>>
parse_vars == <<p_parser, p_records, p_items, p_pc>>
norm_vars == <<n_raw, n_result>>
dom_vars == <<d_pc, d_matches, d_items, d_debug>>
save_vars == <<t_pc, t_rows, t_store, t_txn, t_conn, t_exc, t_before>>
sched_vars == <<h_pc, h_mode, h_now, h_next, h_queue, h_active, h_started, h_outcomes,
                h_pending_at>>

\* ---------------------------------------------------------------- bounds
MaxRuns == 2      \* pipeline runs in one behaviour
MaxDay == 2       \* calendar dates date.today() can return
MaxFaults == 1    \* injected failures in one behaviour
MaxEntries == 2   \* raw records in one API response
MaxNoUrl == 1     \* parsed records of one collection that carry no product URL
MaxRepeats == 1   \* parsed records of one collection that repeat an earlier URL

\* ---------------------------------------------------------------- helpers
Range(s) == {s[i] : i \in 1..Len(s)}
Min2(a, b) == IF a < b THEN a ELSE b
Max2(a, b) == IF a > b THEN a ELSE b
RECURSIVE Pow2(_)
Pow2(n) == IF n = 0 THEN 1 ELSE 2 * Pow2(n - 1)
SeqsUpTo(S, n) == UNION {[1..k -> S] : k \in 0..n}

NoExc == [raised |-> FALSE, msg |-> ""]
Raised(m) == [raised |-> TRUE, msg |-> m]
\* The messages str(e) can give for an exception that escapes an adapter's
\* collection code: an exception built without arguments has the empty
\* message.
ErrMsgs == {"", "boom"}
ScrapeErrors == {Raised(m) : m \in ErrMsgs}
\* The exceptions of the other failure points, named after the point:
\* BaseScraper.__init__, the sqlite3 calls of a save, client.close().
CtorErrors == {Raised("init failed")}
DbErrors == {Raised("database error")}
CloseErrors == {Raised("close failed")}
NoScraper == [platform |-> "none", snapshot_date |-> 0]
NoRows == [bs |-> 0, kw |-> 0, log |-> 0]

\* ================================================================
\* Orchestrator: run_scrapers.run_all_scrapers
\* ================================================================

\* The import blocks of run_scrapers.py:16-44, in order; each class's
\* platform_name.
Registry == <<"musinsa", "twentynine_cm", "wconcept", "zigzag", "ably">>

\* What importing an adapter's module can do.  scrapers/ably.py:16 imports
\* the name ABLY, which config.py does not define: that import raises
\* ImportError on every run.  The other modules load scrapers/base.py, whose
\* module-level code imports third-party packages (ImportError) and creates
\* the log directory, the log sink and the UserAgent (other exceptions).
ImportOutcomes(name) ==
    IF name = "ably" THEN {"ImportError"}
    ELSE IF faults < MaxFaults THEN {"ok", "ImportError", "Error"} ELSE {"ok"}

\* Adapters whose scrape() also collects keywords (musinsa.py:288, ably.py:646).
HasKeywords(name) == name \in {"musinsa", "ably"}

\* Adapters whose bestseller collection can let an exception escape: in
\* musinsa.py every request and parse sits inside the try of lines 148-167;
\* the others touch the response outside a try (zigzag.py:196,
\* twentynine_cm.py:144-146, wconcept.py:101, ably.py:104).
BestsellersMayRaise(name) == name # "musinsa"

\* What one collection returns when nothing goes wrong: one ranked product.
NominalBestsellers(name) ==
    <<[rank |-> 1, product_name |-> "A", product_url |-> "u1"]>>
NominalKeywords(name) == <<[keyword |-> "k1", rank |-> 1]>>

\* base.py:83-95, the tuples save_bestsellers inserts.
BestsellerRows(s, items) ==
    [i \in 1..Len(items) |->
        [platform |-> s.platform, rank |-> items[i].rank,
         product_name |-> items[i].product_name,
         product_url |-> items[i].product_url,
         snapshot_date |-> s.snapshot_date]]

\* base.py:111-117, the tuples save_keywords inserts.
KeywordRows(s, kws) ==
    [i \in 1..Len(kws) |->
        [platform |-> s.platform, keyword |-> kws[i].keyword,
         rank |-> kws[i].rank, snapshot_date |-> s.snapshot_date]]

\* base.py:126-130, the tuple log_scrape inserts.
LogRow(s, status, items_collected, error_message) ==
    [platform |-> s.platform, status |-> status,
     items_collected |-> items_collected, error_message |-> error_message]

InitOrch ==
    /\ pc = "idle"
    /\ idx = 1
    /\ scraper_classes = <<>>
    /\ results = <<>>
    /\ scraper = NoScraper
    /\ total = 0
    /\ exc = NoExc
    /\ open_clients = 0
    /\ today = 1
    /\ runs = 0
    /\ faults = 0
    /\ bestseller_rankings = <<>>
    /\ keyword_rankings = <<>>
    /\ instagram_metrics = <<>>
    /\ scrape_log = <<>>
    /\ written = NoRows
    /\ invoked = <<>>
    /\ events = <<>>

InitFetchOff ==
    /\ f_pc = "off"
    /\ attempt_number = 0
    /\ f_waits = <<>>
    /\ f_outcomes = <<>>

InitCollectOff ==
    /\ adapter = "none"
    /\ c_pc = "off"
    /\ request_count = 0
    /\ all_items = <<>>
    /\ seen_urls = {}
    /\ rank = 0
    /\ cursor = "None"
    /\ first_seen = <<>>
    /\ repeats = 0

InitRequestsOff ==
    /\ q_adapter = "none"
    /\ q_pc = "off"
    /\ q_i = 0
    /\ q_categories = <<>>
    /\ q_cursor = "None"
    /\ q_log = <<>>
    /\ q_last = "none"
    /\ q_requests = 0
    /\ q_failures = 0
    /\ q_attempts = 0
    /\ q_adjacent = FALSE
    /\ q_bestsellers = 0
    /\ q_saved = [bs |-> FALSE, kw |-> FALSE]
    /\ q_status = "running"

InitParseOff ==
    /\ p_parser = "none"
    /\ p_records = <<>>
    /\ p_items = <<>>
    /\ p_pc = "off"

InitNormalizeOff ==
    /\ n_raw = <<>>
    /\ n_result = "unset"

InitDomOff ==
    /\ d_pc = "off"
    /\ d_matches = <<>>
    /\ d_items = <<>>
    /\ d_debug = "none"

InitSaveOff ==
    /\ t_pc = "off"
    /\ t_rows = <<>>
    /\ t_store = <<>>
    /\ t_txn = <<>>
    /\ t_conn = "none"
    /\ t_exc = "none"
    /\ t_before = <<>>

InitSchedulerOff ==
    /\ h_pc = "off"
    /\ h_mode = "loop"
    /\ h_now = 0
    /\ h_next = <<>>
    /\ h_queue = <<>>
    /\ h_active = 0
    /\ h_started = 0
    /\ h_outcomes = <<>>
    /\ h_pending_at = 0

InitLaterOff == InitDomOff /\ InitSaveOff /\ InitSchedulerOff

InitOthersOff == InitRequestsOff /\ InitParseOff /\ InitNormalizeOff /\ InitLaterOff

Init == InitOrch /\ InitFetchOff /\ InitCollectOff /\ InitOthersOff

\* run_scrapers.py:8-14: init_db() (CREATE TABLE IF NOT EXISTS: no row is
\* touched), results = {}, scraper_classes = [].  scheduler.py calls it again
\* after it returned or after an exception escaped it.
StartRun ==
    /\ pc \in {"idle", "returned", "aborted"}
    /\ runs < MaxRuns
    /\ runs' = runs + 1
    /\ pc' = "import"
    /\ idx' = 1
    /\ scraper_classes' = <<>>
    /\ results' = <<>>
    /\ scraper' = NoScraper
    /\ total' = 0
    /\ exc' = NoExc
    /\ written' = NoRows
    /\ invoked' = <<>>
    /\ events' = <<>>
    /\ UNCHANGED <<open_clients, today, faults, bestseller_rankings, keyword_rankings,
                   instagram_metrics, scrape_log>>
    /\ UNCHANGED <<fetch_vars, collect_vars, req_vars, parse_vars, norm_vars, dom_vars, save_vars, sched_vars>>

\* The position after the import block / the invocation at index i.
AfterImport(i, classes) ==
    IF i < Len(Registry) THEN "import"
    ELSE IF Len(classes) = 0 THEN "returned" ELSE "construct"

\* run_scrapers.py:16-44: one try/except ImportError block.
ImportAdapter ==
    /\ pc = "import"
    /\ \E o \in ImportOutcomes(Registry[idx]) :
        /\ faults' = IF o # "ok" /\ Registry[idx] # "ably" THEN faults + 1 ELSE faults
        /\ IF o = "Error"
           THEN \* not an ImportError: the exception leaves run_all_scrapers
                /\ pc' = "aborted"
                /\ UNCHANGED <<idx, scraper_classes>>
           ELSE LET classes == IF o = "ok" THEN Append(scraper_classes, Registry[idx])
                                           ELSE scraper_classes
                IN /\ scraper_classes' = classes
                   /\ pc' = AfterImport(idx, classes)
                   /\ idx' = IF idx < Len(Registry) THEN idx + 1 ELSE 1
    /\ UNCHANGED <<results, scraper, total, exc, open_clients, today, runs,
                   bestseller_rankings, keyword_rankings, instagram_metrics,
                   scrape_log, written, invoked, events>>
    /\ UNCHANGED <<fetch_vars, collect_vars, req_vars, parse_vars, norm_vars, dom_vars, save_vars, sched_vars>>

\* The loop of run_scrapers.py:49 moves on to the next class, or the function
\* logs its summary and returns results (lines 60-70).
NextPc(i) == IF i < Len(scraper_classes) THEN "construct" ELSE "returned"
NextIdxStay(i) == i
NextIdx(i) == IF i < Len(scraper_classes) THEN i + 1 ELSE i

\* base.py:39-43: self.client = httpx.Client(...), when the call returned.
ClientsAfterInit(n, created) == IF created THEN n + 1 ELSE n

\* base.py:157-164: __exit__ calls close(), which closes self.client.
ClientsAfterExit(n) == n - 1

\* run_scrapers.py:54 and :57, the two outcome entries.
Success(count) == [status |-> "success", items |-> count]
Failed(e) == [status |-> "failed", error |-> e.msg]

\* run_scrapers.py:52 "with scraper_cls() as scraper": BaseScraper.__init__
\* (base.py:38-44) creates the client and reads date.today(); an exception
\* (httpx.Client(http2=True) without the h2 package, ...) goes to the except
\* of line 56.  The calendar date may have advanced since it was last read.
\* An exception of the constructor comes from httpx.Client(...) itself
\* (base.py:39-43, no client exists yet) or from a later statement of the
\* constructor chain (base.py:44, the subclass __init__ after
\* super().__init__()), when the client already exists; the with block is
\* never entered then, so __exit__ does not run.
Construct ==
    /\ pc = "construct"
    /\ LET name == scraper_classes[idx] IN
       \E d \in today..MaxDay, e \in {NoExc} \cup CtorErrors, created \in BOOLEAN :
        /\ e.raised => faults < MaxFaults
        /\ ~e.raised => created
        /\ open_clients' = ClientsAfterInit(open_clients, created)
        /\ faults' = IF e.raised THEN faults + 1 ELSE faults
        /\ today' = d
        /\ events' = IF e.raised
                      THEN events \o <<(<<"construct", name>>), (<<"init_raised", name>>)>>
                      ELSE Append(events, <<"construct", name>>)
        /\ total' = 0
        /\ written' = NoRows
        /\ exc' = NoExc
        /\ IF e.raised
           THEN /\ results' = (name :> Failed(e)) @@ results
                /\ invoked' = (name :> NoRows) @@ invoked
                /\ scraper' = NoScraper
                /\ pc' = NextPc(idx)
                /\ idx' = NextIdx(idx)
           ELSE /\ scraper' = [platform |-> name, snapshot_date |-> d]
                /\ pc' = "scrape_bs"
                /\ UNCHANGED <<results, invoked, idx>>
    /\ UNCHANGED <<scraper_classes, runs, bestseller_rankings, keyword_rankings,
                   instagram_metrics, scrape_log>>
    /\ UNCHANGED <<fetch_vars, collect_vars, req_vars, parse_vars, norm_vars, dom_vars, save_vars, sched_vars>>

\* database/db.py:15-29 around one executemany / execute: the rows are
\* committed, or an exception rolls the transaction back and is re-raised.
TransactionReplacing(table, rows, commit) == IF commit THEN rows ELSE table
Transaction(table, rows, commit) == IF commit THEN table \o rows ELSE table

\* base.py:72-99.  Nothing is written for an empty list.
save_bestsellers(table, s, items, commit) ==
    IF items = <<>> THEN table
    ELSE Transaction(table, BestsellerRows(s, items), commit)

\* base.py:101-121.
save_keywords(table, s, keywords, commit) ==
    IF keywords = <<>> THEN table
    ELSE Transaction(table, KeywordRows(s, keywords), commit)

\* base.py:123-131.
log_scrape(table, s, status, items_collected, error_message, commit) ==
    Transaction(table, <<LogRow(s, status, items_collected, error_message)>>, commit)

\* "total += len(bestsellers)" and "total += len(keywords)" of scrape()
\* (musinsa.py:282 and :292, twentynine_cm.py:250, wconcept.py:253,
\* zigzag.py:233, ably.py:640 and :650).
AddCountNothing(count, items) == count
AddCount(count, items) == count + Len(items)

\* What a collection step can do: return its list, return nothing (every
\* request failed or the platform sent no usable record), raise, or return
\* its list and have the save raise.
CollectOutcomes(mayRaise) ==
    {"items"} \cup
    (IF faults < MaxFaults
     THEN {"empty", "save_raises"} \cup (IF mayRaise THEN {"raises"} ELSE {})
     ELSE {})

\* The first half of scrape() (musinsa.py:278-286, twentynine_cm.py:247-252,
\* wconcept.py:250-255, zigzag.py:230-235, ably.py:636-644), entered from
\* BaseScraper.run (base.py:133-138).
ScrapeBestsellers ==
    /\ pc = "scrape_bs"
    /\ LET name == scraper.platform IN
       \E o \in CollectOutcomes(BestsellersMayRaise(name)), e \in ScrapeErrors \cup DbErrors :
        /\ e \in (IF o = "raises" THEN ScrapeErrors ELSE DbErrors)
        /\ faults' = IF o # "items" THEN faults + 1 ELSE faults
        /\ events' = Append(events, <<"run", name>>)
        /\ LET bestsellers == IF o \in {"items", "save_raises"}
                                THEN NominalBestsellers(name) ELSE <<>>
               table == save_bestsellers(bestseller_rankings, scraper, bestsellers,
                                         o # "save_raises")
           IN /\ bestseller_rankings' = table
              /\ written' = [written EXCEPT
                               !.bs = @ + Len(table) - Len(bestseller_rankings)]
              /\ IF o \in {"raises", "save_raises"}
                 THEN /\ exc' = e
                      /\ pc' = "log_failed"
                      /\ UNCHANGED total
                 ELSE /\ total' = AddCount(total, bestsellers)
                      /\ pc' = IF HasKeywords(name) THEN "scrape_kw" ELSE "log_success"
                      /\ UNCHANGED exc
    /\ UNCHANGED <<idx, scraper_classes, results, scraper, open_clients, today, runs,
                   keyword_rankings, instagram_metrics, scrape_log, invoked>>
    /\ UNCHANGED <<fetch_vars, collect_vars, req_vars, parse_vars, norm_vars, dom_vars, save_vars, sched_vars>>

\* The second half of scrape() for the adapters that collect keywords
\* (musinsa.py:288-296, ably.py:646-654).  MusinsaScraper.scrape_keywords
\* calls _api_get outside any try (musinsa.py:243).
ScrapeKeywords ==
    /\ pc = "scrape_kw"
    /\ \E o \in CollectOutcomes(TRUE), e \in ScrapeErrors \cup DbErrors :
        /\ e \in (IF o = "raises" THEN ScrapeErrors ELSE DbErrors)
        /\ faults' = IF o # "items" THEN faults + 1 ELSE faults
        /\ LET keywords == IF o \in {"items", "save_raises"}
                             THEN NominalKeywords(scraper.platform) ELSE <<>>
               table == save_keywords(keyword_rankings, scraper, keywords,
                                      o # "save_raises")
           IN /\ keyword_rankings' = table
              /\ written' = [written EXCEPT
                               !.kw = @ + Len(table) - Len(keyword_rankings)]
              /\ IF o \in {"raises", "save_raises"}
                 THEN /\ exc' = e
                      /\ pc' = "log_failed"
                      /\ UNCHANGED total
                 ELSE /\ total' = AddCount(total, keywords)
                      /\ pc' = "log_success"
                      /\ UNCHANGED exc
    /\ UNCHANGED <<idx, scraper_classes, results, scraper, open_clients, today, runs,
                   bestseller_rankings, instagram_metrics, scrape_log, invoked, events>>
    /\ UNCHANGED <<fetch_vars, collect_vars, req_vars, parse_vars, norm_vars, dom_vars, save_vars, sched_vars>>

\* base.py:139-145: scrape() returned; log_scrape("success", total).  The
\* call sits inside the try, so its exception goes to the except of line 146.
LogSuccess ==
    /\ pc = "log_success"
    /\ \E e \in {NoExc} \cup DbErrors :
        /\ e.raised => faults < MaxFaults
        /\ faults' = IF e.raised THEN faults + 1 ELSE faults
        /\ scrape_log' = log_scrape(scrape_log, scraper, "success", total, "", ~e.raised)
        /\ written' = [written EXCEPT !.log = @ + Len(scrape_log') - Len(scrape_log)]
        /\ exc' = e
        /\ pc' = IF e.raised THEN "log_failed" ELSE "exit"
    /\ UNCHANGED <<idx, scraper_classes, results, scraper, total, open_clients, today, runs,
                   bestseller_rankings, keyword_rankings, instagram_metrics,
                   invoked, events>>
    /\ UNCHANGED <<fetch_vars, collect_vars, req_vars, parse_vars, norm_vars, dom_vars, save_vars, sched_vars>>

\* base.py:146-150: log_scrape("failed", error_message=str(e)), then raise.
\* An exception of log_scrape itself replaces the one being handled.
LogFailed ==
    /\ pc = "log_failed"
    /\ \E e \in {NoExc} \cup DbErrors :
        /\ e.raised => faults < MaxFaults
        /\ faults' = IF e.raised THEN faults + 1 ELSE faults
        /\ scrape_log' = log_scrape(scrape_log, scraper, "failed", 0, exc.msg, ~e.raised)
        /\ written' = [written EXCEPT !.log = @ + Len(scrape_log') - Len(scrape_log)]
        /\ exc' = IF e.raised THEN e ELSE exc
        /\ pc' = "exit"
    /\ UNCHANGED <<idx, scraper_classes, results, scraper, total, open_clients, today, runs,
                   bestseller_rankings, keyword_rankings, instagram_metrics,
                   invoked, events>>
    /\ UNCHANGED <<fetch_vars, collect_vars, req_vars, parse_vars, norm_vars, dom_vars, save_vars, sched_vars>>

\* run_scrapers.py:52-58: the with block ends.  After a normal return of
\* run() line 54 stores the success entry; __exit__ (base.py:163-164) closes
\* the client; whatever exception is in flight then (from run() or from
\* close()) reaches the except of line 56, which stores the failed entry.
Exit ==
    /\ pc = "exit"
    /\ LET name == scraper.platform IN
       \E e \in {NoExc} \cup CloseErrors :
        /\ e.raised => faults < MaxFaults
        /\ faults' = IF e.raised THEN faults + 1 ELSE faults
        /\ LET final == IF e.raised THEN e ELSE exc
           IN results' = (name :> (IF final.raised THEN Failed(final)
                                                   ELSE Success(total))) @@ results
        /\ invoked' = (name :> written) @@ invoked
        /\ open_clients' = ClientsAfterExit(open_clients)
        /\ scraper' = NoScraper
        /\ exc' = NoExc
        /\ pc' = NextPc(idx)
        /\ idx' = NextIdx(idx)
    /\ UNCHANGED <<scraper_classes, total, today, runs, bestseller_rankings,
                   keyword_rankings, instagram_metrics, scrape_log, written, events>>
    /\ UNCHANGED <<fetch_vars, collect_vars, req_vars, parse_vars, norm_vars, dom_vars, save_vars, sched_vars>>

Next ==
    \/ StartRun
    \/ ImportAdapter
    \/ Construct
    \/ ScrapeBestsellers
    \/ ScrapeKeywords
    \/ LogSuccess
    \/ LogFailed
    \/ Exit

Spec == Init /\ [][Next]_vars

\* ================================================================
\* BaseScraper.fetch under @retry (scrapers/base.py:59-67)
\* ================================================================

MAX_RETRIES == 3
WAIT_MULTIPLIER == 1
WAIT_MIN == 2
WAIT_MAX == 30

\* What one client.get + raise_for_status can do (base.py:65-66): a 2xx
\* response returns; any other status raises HTTPStatusError; the transport
\* raises on a timeout or a connection error.
AttemptOutcomes == {"2xx", "3xx", "4xx", "5xx", "timeout", "connect_error"}
AttemptFailed(o) == o # "2xx"

\* base.py:60, stop=stop_after_attempt(MAX_RETRIES): stop once that many
\* attempts have been made.
StopAfterAttemptOffByOne(n) == n > MAX_RETRIES
StopAfterAttempt(n) == n >= MAX_RETRIES

\* base.py:61, wait=wait_exponential(multiplier=1, min=2, max=30): after
\* attempt n the sleep is multiplier * 2^(n-1), clamped to [min, max].
WaitExponential(n) == Max2(Max2(0, WAIT_MIN), Min2(WAIT_MULTIPLIER * Pow2(n - 1), WAIT_MAX))

InitFetch ==
    /\ f_pc = "idle"
    /\ attempt_number = 0
    /\ f_waits = <<>>
    /\ f_outcomes = <<>>

\* A caller enters fetch(url, params): the retry loop starts its first attempt.
FetchCall ==
    /\ f_pc = "idle"
    /\ f_pc' = "attempt"
    /\ attempt_number' = 1
    /\ UNCHANGED <<f_waits, f_outcomes>>
    /\ UNCHANGED <<orch_vars, collect_vars, req_vars, parse_vars, norm_vars, dom_vars, save_vars, sched_vars>>

\* One attempt (base.py:64-67).  On success fetch returns the response; on
\* failure the retry loop either stops and raises its terminal error or goes
\* to sleep before the next attempt.
FetchAttempt ==
    /\ f_pc = "attempt"
    /\ \E o \in AttemptOutcomes :
        /\ f_outcomes' = Append(f_outcomes, o)
        /\ f_pc' = IF ~AttemptFailed(o) THEN "returned"
                   ELSE IF StopAfterAttempt(attempt_number) THEN "raised"
                   ELSE "sleep"
    /\ UNCHANGED <<attempt_number, f_waits>>
    /\ UNCHANGED <<orch_vars, collect_vars, req_vars, parse_vars, norm_vars, dom_vars, save_vars, sched_vars>>

\* The sleep between two attempts, then the next attempt begins.
FetchSleep ==
    /\ f_pc = "sleep"
    /\ f_waits' = Append(f_waits, WaitExponential(attempt_number))
    /\ attempt_number' = attempt_number + 1
    /\ f_pc' = "attempt"
    /\ UNCHANGED f_outcomes
    /\ UNCHANGED <<orch_vars, collect_vars, req_vars, parse_vars, norm_vars, dom_vars, save_vars, sched_vars>>

NextFetch ==
    \/ FetchCall
    \/ FetchAttempt
    \/ FetchSleep

FetchInit == InitOrch /\ InitFetch /\ InitCollectOff /\ InitOthersOff
SpecFetch == FetchInit /\ [][NextFetch]_vars

\* C2: retry ceiling.  fetch never makes more than MAX_RETRIES attempts; it
\* raises its terminal error only after exactly MAX_RETRIES attempts, all of
\* them failed, and as long as every attempt failed and fewer were made it
\* has not given up; each wait is at least as long as the one before.
C2_RetryCeiling ==
    /\ Len(f_outcomes) <= MAX_RETRIES
    /\ f_pc = "raised" =>
        /\ Len(f_outcomes) = MAX_RETRIES
        /\ \A i \in 1..Len(f_outcomes) : AttemptFailed(f_outcomes[i])
        /\ Len(f_waits) = MAX_RETRIES - 1
    /\ (/\ f_pc \in {"returned", "raised"}
        /\ \A i \in 1..Len(f_outcomes) : AttemptFailed(f_outcomes[i]))
       => Len(f_outcomes) = MAX_RETRIES
    /\ \A i, j \in 1..Len(f_waits) : i < j => f_waits[i] <= f_waits[j]

\* Witness for C2: three failed attempts with two waits between them, and
\* fetch has raised.
C2_Witness ==
    /\ f_pc = "raised"
    /\ Len(f_outcomes) = 3
    /\ Len(f_waits) = 2
    /\ \A i \in 1..3 : AttemptFailed(f_outcomes[i])

\* ================================================================
\* Bestseller collection of the platform adapters (scrapers/*.py)
\* ================================================================

Urls == {"u1", "u2", "u3"}

\* The raw records a response can carry: an entry of another type
\* (musinsa.py:110, zigzag.py:200), a product record whose parse raises, a
\* product record without a name, and named product records with each URL
\* and with none.
RawEntries ==
    {[kind |-> "other", name |-> "", url |-> ""],
     [kind |-> "bad", name |-> "A", url |-> "u1"],
     [kind |-> "product", name |-> "", url |-> "u1"]}
    \cup {[kind |-> "product", name |-> "A", url |-> u] : u \in Urls \cup {""}}
RawResponses == SeqsUpTo(RawEntries, MaxEntries)

NoItem == [rank |-> 0, product_name |-> "", product_url |-> ""]
Item(r, n, u) == [rank |-> r, product_name |-> n, product_url |-> u]

\* musinsa.py:183-226 / zigzag.py:137-169: no record without a name
\* (returns None), else the standard dict with the rank it was given.
ParseProduct(entry, r) ==
    IF entry.name = "" THEN NoItem ELSE Item(r, entry.name, entry.url)

\* The per-record loop shared by musinsa.py:105-124 and zigzag.py:199-210:
\* entries of another type are skipped; every product entry takes the next
\* rank, starting after r0; a record whose parse returns None or raises is
\* left out.
RECURSIVE ParseEntries(_, _)
ParseEntries(entries, r0) ==
    IF entries = <<>> THEN <<>>
    ELSE LET e == Head(entries) IN
         IF e.kind = "other" THEN ParseEntries(Tail(entries), r0)
         ELSE LET item == IF e.kind = "bad" THEN NoItem ELSE ParseProduct(e, r0 + 1)
              IN (IF item = NoItem THEN <<>> ELSE <<item>>)
                 \o ParseEntries(Tail(entries), r0 + 1)

\* The number of product entries of a response: what the loop adds to rank.
ProductCount(entries) == Len(SelectSeq(entries, LAMBDA e : e.kind # "other"))

\* musinsa.py:155-161: a record whose non-empty URL was seen is skipped; a
\* record without URL is always kept.  Returns the new <<all_items, seen_urls>>.
RECURSIVE DedupKeepingNoUrlAllowRepeat(_, _, _)
DedupKeepingNoUrlAllowRepeat(items, all, seen) ==
    IF items = <<>> THEN <<all, seen>>
    ELSE LET url == Head(items).product_url IN
         DedupKeepingNoUrlAllowRepeat(Tail(items), Append(all, Head(items)),
                                      IF url # "" THEN seen \cup {url} ELSE seen)
RECURSIVE DedupKeepingNoUrl(_, _, _)
DedupKeepingNoUrl(items, all, seen) ==
    IF items = <<>> THEN <<all, seen>>
    ELSE LET url == Head(items).product_url IN
         IF url # "" /\ url \in seen
         THEN DedupKeepingNoUrl(Tail(items), all, seen)
         ELSE DedupKeepingNoUrl(Tail(items), Append(all, Head(items)),
                                IF url # "" THEN seen \cup {url} ELSE seen)

\* musinsa.py:172-174 (also twentynine_cm.py:177-179, wconcept.py:194-196).
Renumber(items) == [i \in 1..Len(items) |-> [items[i] EXCEPT !.rank = i]]

\* musinsa.py:37-55: the fixed enumerations.
RANKING_SECTIONS == <<"199", "200", "201">>
WOMEN_CATEGORIES == <<"000", "002", "001", "003", "020", "022", "004", "005">>
MusinsaRequests == Len(RANKING_SECTIONS) * Len(WOMEN_CATEGORIES)

\* zigzag.py:60.
MAX_PAGES == 3
Cursors == {"None", "c1", "c2"}

\* History: the URLs of parsed records in order of first occurrence, and how
\* many parsed records repeated an earlier URL.
RECURSIVE NoteFirstSeen(_, _)
NoteFirstSeen(items, fs) ==
    IF items = <<>> THEN fs
    ELSE LET url == Head(items).product_url IN
         NoteFirstSeen(Tail(items),
                       IF url = "" \/ url \in Range(fs) THEN fs ELSE Append(fs, url))
RECURSIVE CountRepeats(_, _)
CountRepeats(items, known) ==
    IF items = <<>> THEN 0
    ELSE LET url == Head(items).product_url IN
         (IF url # "" /\ url \in known THEN 1 ELSE 0)
         + CountRepeats(Tail(items), IF url = "" THEN known ELSE known \cup {url})
NoUrlCount(items) == Len(SelectSeq(items, LAMBDA it : it.product_url = ""))

\* The bounds on what the platform sends during one collection.
WithinInputBounds(parsed) ==
    /\ NoUrlCount(all_items) + NoUrlCount(parsed) <= MaxNoUrl
    /\ repeats + CountRepeats(parsed, Range(first_seen)) <= MaxRepeats

InitCollect ==
    /\ adapter \in {"musinsa", "zigzag"}
    /\ c_pc = "loop"
    /\ request_count = 0
    /\ all_items = <<>>
    /\ seen_urls = {}
    /\ rank = 0
    /\ cursor = "None"
    /\ first_seen = <<>>
    /\ repeats = 0

\* One iteration of the double loop of MusinsaScraper.scrape_bestsellers
\* (musinsa.py:146-170): one request for the next (section, category); an
\* exception of the request leaves all_items alone.  After the last
\* iteration the ranks are renumbered and the list is returned
\* (musinsa.py:172-181).
MusinsaRequest ==
    /\ adapter = "musinsa"
    /\ c_pc = "loop"
    /\ request_count < MusinsaRequests
    /\ \E failed \in BOOLEAN, resp \in RawResponses :
        /\ failed => resp = <<>>
        /\ LET items == ParseEntries(resp, 0)
               new == DedupKeepingNoUrl(items, all_items, seen_urls)
               last == request_count + 1 = MusinsaRequests
           IN /\ WithinInputBounds(items)
              /\ all_items' = IF last THEN Renumber(new[1]) ELSE new[1]
              /\ seen_urls' = new[2]
              /\ first_seen' = NoteFirstSeen(items, first_seen)
              /\ repeats' = repeats + CountRepeats(items, Range(first_seen))
              /\ c_pc' = IF last THEN "done" ELSE "loop"
    /\ request_count' = request_count + 1
    /\ UNCHANGED <<adapter, rank, cursor>>
    /\ UNCHANGED <<orch_vars, fetch_vars, req_vars, parse_vars, norm_vars, dom_vars, save_vars, sched_vars>>

\* One iteration of the page loop of ZigzagScraper.scrape_bestsellers
\* (zigzag.py:183-219): an exception of the request ends the loop; else the
\* product cards of the page are parsed with the running rank; the loop ends
\* when has_next is false, the cursor is empty or MAX_PAGES pages were
\* fetched, and the list is returned as it is (zigzag.py:221-224).
ZigzagPage ==
    /\ adapter = "zigzag"
    /\ c_pc = "loop"
    /\ request_count < MAX_PAGES
    /\ \E failed \in BOOLEAN, resp \in RawResponses, end_cursor \in Cursors,
          has_next \in BOOLEAN :
        /\ failed => resp = <<>> /\ end_cursor = "None" /\ ~has_next
        /\ LET items == ParseEntries(resp, rank)
           IN /\ WithinInputBounds(items)
              /\ all_items' = all_items \o items
              /\ rank' = rank + ProductCount(resp)
              /\ first_seen' = NoteFirstSeen(items, first_seen)
              /\ repeats' = repeats + CountRepeats(items, Range(first_seen))
        /\ cursor' = IF failed THEN cursor ELSE end_cursor
        /\ c_pc' = IF failed \/ ~has_next \/ end_cursor = "None"
                      \/ request_count + 1 = MAX_PAGES
                   THEN "done" ELSE "loop"
    /\ request_count' = request_count + 1
    /\ UNCHANGED <<adapter, seen_urls>>
    /\ UNCHANGED <<orch_vars, fetch_vars, req_vars, parse_vars, norm_vars, dom_vars, save_vars, sched_vars>>

NextCollect ==
    \/ MusinsaRequest
    \/ ZigzagPage

CollectInit == InitOrch /\ InitFetchOff /\ InitCollect /\ InitOthersOff
SpecCollect == CollectInit /\ [][NextCollect]_vars

\* ================================================================
\* The network requests and sleeps of one adapter invocation
\* ================================================================

RequestAdapters == {"musinsa", "twentynine_cm", "wconcept", "zigzag"}

\* The request helpers of the adapters (musinsa.py:27-34 and
\* twentynine_cm.py:39-44 _api_get, wconcept.py:28-42 _api_post,
\* zigzag.py:87-104 _fetch_page) call self.client.get / post and
\* raise_for_status once; they carry no retry decorator and do not go through
\* BaseScraper.fetch.  The number of HTTP attempts of one helper call:
ApiAttempts == 1

\* What one helper call gives its caller: a transport error (an exception),
\* a response with no content, a response whose records are all dropped, or
\* a response with at least one record that is kept.
TransportErrors == {o \in AttemptOutcomes : AttemptFailed(o)}
RequestOutcomes == {"items", "dropped", "empty"} \cup TransportErrors
IsTransportError(o) == o \in TransportErrors

\* twentynine_cm.py:103, range(0, 300, 100).
TWENTYNINE_PAGES == 3
\* wconcept.py:50 and :57-60.
DATE_TYPES == <<"daily", "weekly", "realtime">>
SUBCATEGORY_QUERIES == <<"10102", "10103">>
WconceptQueries == Len(DATE_TYPES) + Len(SUBCATEGORY_QUERIES)
\* The subcategories fetch_categories can return (twentynine_cm.py:144-148).
MaxSubcats == 2

\* twentynine_cm.py:21 and :103, range(0, 300, 100) with limit=100.
WOMEN_CATEGORY_CODE == "268100100"
PAGE_LIMIT == 100
PageOffset(i) == i * PAGE_LIMIT

\* The entries a category listing can carry: an object without a code, with
\* the primary code, with another code; NotADict is an entry that is not an
\* object, on which cat.get raises (twentynine_cm.py:145, outside any try).
NotADict == "not_a_dict"
CategoryEntries == {"", WOMEN_CATEGORY_CODE, "c1", "c2", NotADict}
CategoryListings == SeqsUpTo(CategoryEntries, MaxSubcats)

\* twentynine_cm.py:147, the entries that are requested.
Usable(cat_code) == cat_code # "" /\ cat_code # WOMEN_CATEGORY_CODE

\* The index of the first entry after position i at which the loop of
\* twentynine_cm.py:144-175 does more than "continue" (0: there is none).
NextStop(listing, i) ==
    LET js == {j \in (i + 1)..Len(listing) :
                  listing[j] = NotADict \/ Usable(listing[j])}
    IN IF js = {} THEN 0 ELSE CHOOSE j \in js : \A k \in js : j <= k

\* What the caller of a request helper sees of outcome o.
OutcomeClass(o) ==
    IF IsTransportError(o) \/ o = "malformed" THEN "failed"
    ELSE IF o = "empty" THEN "empty" ELSE "content"

\* The k-th (section, category) combination of the double loop of
\* musinsa.py:146-147, sections outer, categories inner.
Combination(k) ==
    <<RANKING_SECTIONS[((k - 1) \div Len(WOMEN_CATEGORIES)) + 1],
      WOMEN_CATEGORIES[((k - 1) % Len(WOMEN_CATEGORIES)) + 1]>>

\* The k-th query of wconcept.py:132 and :160.
WconceptQueryAt(k) ==
    IF k <= Len(DATE_TYPES) THEN DATE_TYPES[k] ELSE SUBCATEGORY_QUERIES[k - Len(DATE_TYPES)]

InitRequests ==
    /\ q_adapter \in RequestAdapters
    /\ q_pc = "main"
    /\ q_i = 0
    /\ q_categories = <<>>
    /\ q_cursor = "None"
    /\ q_log = <<>>
    /\ q_last = "none"
    /\ q_requests = 0
    /\ q_failures = 0
    /\ q_attempts = 0
    /\ q_adjacent = FALSE
    /\ q_bestsellers = 0
    /\ q_saved = [bs |-> FALSE, kw |-> FALSE]
    /\ q_status = "running"

\* The bookkeeping of one helper call with outcome o; slept says whether a
\* random_delay (base.py:54-57) ran since the previous request; what and arg
\* say which request it was, out what is kept of its outcome.
Request(o, slept, what, arg, out) ==
    /\ q_requests' = q_requests + 1
    /\ q_failures' = IF IsTransportError(o) THEN q_failures + 1 ELSE q_failures
    /\ q_attempts' = ApiAttempts
    /\ q_adjacent' = (q_adjacent \/ (q_last = "request" /\ ~slept))
    /\ q_log' = Append(q_log, [what |-> what, arg |-> arg, out |-> out])

\* len(bestsellers) after a response with outcome o was ingested.
Ingest(n, o) == IF o = "items" THEN 1 ELSE n

\* scrape() returns (the else of base.py:139-145 logs "success") or lets an
\* exception escape (base.py:146-150 logs "failed" and re-raises, and
\* run_scrapers.py:56-57 stores "failed").
StatusOf(raised) == IF raised THEN "failed" ELSE "success"

\* musinsa.py:146-170: the double loop ends when the enumerations are
\* exhausted; no outcome of a request ends it.
MusinsaLoopEndsOnFailure(o, i) == i = MusinsaRequests \/ IsTransportError(o)
MusinsaLoopEnds(o, i) == i = MusinsaRequests

\* One iteration of the loop of MusinsaScraper.scrape_bestsellers
\* (musinsa.py:146-170): the request sits in a try, random_delay follows in
\* every case.  After the last iteration scrape() saves a non-empty list and
\* sleeps (musinsa.py:279-286).
MusinsaSection ==
    /\ q_adapter = "musinsa"
    /\ q_pc = "main"
    /\ \E o \in RequestOutcomes :
        /\ Request(o, FALSE, "section", Combination(q_i + 1), "-")
        /\ q_bestsellers' = Ingest(q_bestsellers, o)
        /\ q_last' = "delay"
        /\ q_i' = q_i + 1
        /\ IF MusinsaLoopEnds(o, q_i + 1)
           THEN /\ q_pc' = "keywords"
                /\ q_saved' = [q_saved EXCEPT !.bs = (q_bestsellers' > 0)]
           ELSE UNCHANGED <<q_pc, q_saved>>
    /\ UNCHANGED <<q_adapter, q_categories, q_cursor, q_status>>
    /\ UNCHANGED <<orch_vars, fetch_vars, collect_vars, parse_vars, norm_vars, dom_vars, save_vars, sched_vars>>

\* MusinsaScraper.scrape_keywords and the rest of scrape()
\* (musinsa.py:232-268, 288-296): the request is outside any try.
MusinsaKeywords ==
    /\ q_adapter = "musinsa"
    /\ q_pc = "keywords"
    /\ \E o \in RequestOutcomes :
        /\ Request(o, FALSE, "keywords", <<>>, "-")
        /\ q_last' = "request"
        /\ q_saved' = [q_saved EXCEPT !.kw = (o = "items")]
        /\ q_status' = StatusOf(IsTransportError(o))
    /\ q_pc' = "done"
    /\ UNCHANGED <<q_adapter, q_i, q_categories, q_cursor, q_bestsellers>>
    /\ UNCHANGED <<orch_vars, fetch_vars, collect_vars, parse_vars, norm_vars, dom_vars, save_vars, sched_vars>>

\* twentynine_cm.py:107-119: an exception of the request or an empty page
\* breaks out of the page loop.
MainPageStopsOnFailureOnly(o) == IsTransportError(o)
MainPageStops(o) == IsTransportError(o) \/ o = "empty"

\* One iteration of step 1 of TwentynineCmScraper.scrape_bestsellers
\* (twentynine_cm.py:103-135): an exception or an empty page breaks out of
\* the loop; otherwise the page is parsed and random_delay follows.
TwentynineMainPage ==
    /\ q_adapter = "twentynine_cm"
    /\ q_pc = "main"
    /\ \E o \in RequestOutcomes :
        /\ Request(o, FALSE, "main", PageOffset(q_i), OutcomeClass(o))
        /\ q_bestsellers' = Ingest(q_bestsellers, o)
        /\ IF MainPageStops(o)
           THEN /\ q_last' = "request"
                /\ q_pc' = "categories"
                /\ q_i' = 0
           ELSE /\ q_last' = "delay"
                /\ q_pc' = IF q_i + 1 = TWENTYNINE_PAGES THEN "categories" ELSE "main"
                /\ q_i' = IF q_i + 1 = TWENTYNINE_PAGES THEN 0 ELSE q_i + 1
    /\ UNCHANGED <<q_adapter, q_categories, q_cursor, q_saved, q_status>>
    /\ UNCHANGED <<orch_vars, fetch_vars, collect_vars, parse_vars, norm_vars, dom_vars, save_vars, sched_vars>>

\* The end of scrape() for the adapters without keywords
\* (twentynine_cm.py:247-254, wconcept.py:250-257, zigzag.py:230-237).
ReturnFromScrape(n, raised) ==
    /\ q_pc' = "done"
    /\ q_saved' = [q_saved EXCEPT !.bs = (n > 0 /\ ~raised)]
    /\ q_status' = StatusOf(raised)

\* The loop of twentynine_cm.py:144-175 after entry i of the listing: it
\* skips the entries that are not usable, raises at an entry that is not an
\* object, stops in front of the next request, or ends (the list is
\* renumbered and returned, lines 177-185).
AfterEntry(listing, i, n) ==
    LET j == NextStop(listing, i)
    IN IF j = 0 THEN ReturnFromScrape(n, FALSE) /\ q_i' = 0
       ELSE IF listing[j] = NotADict THEN ReturnFromScrape(n, TRUE) /\ q_i' = 0
       ELSE /\ q_pc' = "sub"
            /\ q_i' = j
            /\ UNCHANGED <<q_saved, q_status>>

\* Step 2, first half (twentynine_cm.py:137-142, fetch_categories 50-64):
\* one request in a try; a failure gives no categories.
TwentynineCategories ==
    /\ q_adapter = "twentynine_cm"
    /\ q_pc = "categories"
    /\ \E o \in RequestOutcomes, categories \in CategoryListings :
        /\ o = "items" <=> categories # <<>>
        /\ Request(o, FALSE, "categories", WOMEN_CATEGORY_CODE, OutcomeClass(o))
        /\ q_last' = "request"
        /\ q_categories' = categories
        /\ AfterEntry(categories, 0, q_bestsellers)
    /\ UNCHANGED <<q_adapter, q_cursor, q_bestsellers>>
    /\ UNCHANGED <<orch_vars, fetch_vars, collect_vars, parse_vars, norm_vars, dom_vars, save_vars, sched_vars>>

\* Step 2, one subcategory (twentynine_cm.py:144-175): random_delay, then the
\* request at offset 0 in a try, then the loop goes on.
TwentynineSubcategory ==
    /\ q_adapter = "twentynine_cm"
    /\ q_pc = "sub"
    /\ \E o \in RequestOutcomes :
        /\ Request(o, TRUE, "sub", <<q_categories[q_i], PageOffset(0)>>, OutcomeClass(o))
        /\ q_last' = "request"
        /\ q_bestsellers' = Ingest(q_bestsellers, o)
        /\ AfterEntry(q_categories, q_i, q_bestsellers')
    /\ UNCHANGED <<q_adapter, q_categories, q_cursor>>
    /\ UNCHANGED <<orch_vars, fetch_vars, collect_vars, parse_vars, norm_vars, dom_vars, save_vars, sched_vars>>

\* One query of WConceptScraper.scrape_bestsellers (wconcept.py:132-192):
\* an exception or an empty content goes on to the next query with
\* "continue"; otherwise the content is ingested and random_delay follows.
WconceptQuery ==
    /\ q_adapter = "wconcept"
    /\ q_pc = "main"
    /\ \E o \in RequestOutcomes :
        /\ Request(o, FALSE, "query", WconceptQueryAt(q_i + 1), "-")
        /\ q_bestsellers' = Ingest(q_bestsellers, o)
        /\ q_last' = IF IsTransportError(o) \/ o = "empty" THEN "request" ELSE "delay"
        /\ q_i' = q_i + 1
        /\ IF q_i + 1 = WconceptQueries THEN ReturnFromScrape(q_bestsellers', FALSE)
           ELSE UNCHANGED <<q_pc, q_saved, q_status>>
    /\ UNCHANGED <<q_adapter, q_categories, q_cursor>>
    /\ UNCHANGED <<orch_vars, fetch_vars, collect_vars, parse_vars, norm_vars, dom_vars, save_vars, sched_vars>>

\* zigzag.py:183, range(_MAX_PAGES): the loop body runs for page numbers
\* below the ceiling.
PageLoopRunsOneMore(n) == n <= MAX_PAGES
PageLoopRuns(n) == n < MAX_PAGES

\* zigzag.py:212-217: the loop goes on to the next page when the response
\* says there is one and names a cursor.
HasNextPage(has_next, end_cursor) == has_next /\ end_cursor # "None"

\* One page of ZigzagScraper.scrape_bestsellers (zigzag.py:183-219): the
\* request carries the cursor; an exception of the request breaks out of the
\* loop; a response without the expected object raises at line 196, outside
\* the try; else cursor takes the response's end_cursor, and the loop ends
\* when the page names no next page; otherwise random_delay follows.
ZigzagFetch ==
    /\ q_adapter = "zigzag"
    /\ q_pc = "main"
    /\ PageLoopRuns(q_i)
    /\ \E o \in RequestOutcomes \cup {"malformed"}, has_next \in BOOLEAN,
          end_cursor \in Cursors :
        /\ (IsTransportError(o) \/ o = "malformed") => (~has_next /\ end_cursor = "None")
        /\ Request(o, FALSE, "page", q_cursor,
                   [class |-> OutcomeClass(o), end_cursor |-> end_cursor,
                    has_next |-> has_next])
        /\ q_bestsellers' = Ingest(q_bestsellers, o)
        /\ q_cursor' = IF IsTransportError(o) \/ o = "malformed" THEN q_cursor ELSE end_cursor
        /\ q_last' = IF HasNextPage(has_next, end_cursor) THEN "delay" ELSE "request"
        /\ q_i' = q_i + 1
        /\ IF ~HasNextPage(has_next, end_cursor) \/ ~PageLoopRuns(q_i + 1)
           THEN ReturnFromScrape(q_bestsellers', o = "malformed")
           ELSE UNCHANGED <<q_pc, q_saved, q_status>>
    /\ UNCHANGED <<q_adapter, q_categories>>
    /\ UNCHANGED <<orch_vars, fetch_vars, collect_vars, parse_vars, norm_vars, dom_vars, save_vars, sched_vars>>

NextRequests ==
    \/ MusinsaSection
    \/ MusinsaKeywords
    \/ TwentynineMainPage
    \/ TwentynineCategories
    \/ TwentynineSubcategory
    \/ WconceptQuery
    \/ ZigzagFetch

RequestsInit == InitOrch /\ InitFetchOff /\ InitCollectOff /\ InitRequests
                /\ InitParseOff /\ InitNormalizeOff /\ InitLaterOff
SpecRequests == RequestsInit /\ [][NextRequests]_vars

\* ================================================================
\* The per-record parsers of the adapters
\* ================================================================

Parsers == {"musinsa", "twentynine_cm", "wconcept", "zigzag", "ably_api", "ably_dom"}
PlatformOf(parser) == IF parser \in {"ably_api", "ably_dom"} THEN "ably" ELSE parser

\* An optional number of the source JSON (None or a number), and Python's
\* truth value of it: None and 0 are false.
None == [some |-> FALSE, val |-> 0]
Some(v) == [some |-> TRUE, val |-> v]
Truthy(x) == x.some /\ x.val # 0

\* str.strip() on a string given as its sequence of characters.
RECURSIVE StripLeft(_)
StripLeft(str) ==
    IF str # <<>> /\ Head(str) = " " THEN StripLeft(Tail(str)) ELSE str
RECURSIVE StripRight(_)
StripRight(str) ==
    IF str # <<>> /\ str[Len(str)] = " "
    THEN StripRight(SubSeq(str, 1, Len(str) - 1)) ELSE str
Strip(str) == StripRight(StripLeft(str))

\* Python's round(n / d) for integers n and d # 0: to the nearest integer,
\* ties to the even one.
RoundHalfEven(n, d) ==
    LET nn == IF d < 0 THEN 0 - n ELSE n
        dd == IF d < 0 THEN 0 - d ELSE d
        q == nn \div dd
        r == nn % dd
    IN IF 2 * r < dd THEN q
       ELSE IF 2 * r > dd THEN q + 1
       ELSE IF q % 2 = 0 THEN q ELSE q + 1

\* The values the fields of a raw record take.
RawNames == {<<>>, <<" ">>, <<"A">>, <<" ", "A">>}
RawPrices == {None, Some(8000), Some(10000)}
RawDiscounts == {None, Some(0), Some(20), Some(100), Some(150)}
RawUrls == {"", "u1"}

\* A raw record: kind "bad" stands for a record holding a value on which a
\* statement of the parser raises (a null brand for brand.strip(), a string
\* where a number is compared or converted, ...).
RawRecord(k, n, p, o, d, u) ==
    [kind |-> k, name |-> n, price |-> p, original |-> o, discount |-> d, url |-> u]
BadRecord == RawRecord("bad", <<"A">>, None, None, None, "u1")
RichRecords ==
    {RawRecord("ok", n, p, o, d, u) :
        n \in RawNames, p \in RawPrices, o \in RawPrices, d \in RawDiscounts, u \in RawUrls}
PlainRecords ==
    {BadRecord,
     RawRecord("ok", <<"A">>, Some(8000), None, None, "u1"),
     RawRecord("ok", <<"A">>, Some(8000), None, None, "u2")}
MaxParseRecords == 2
ParseResponses ==
    SeqsUpTo(PlainRecords, MaxParseRecords) \cup {<<r>> : r \in RichRecords}

\* What parsing one record gives: an item, None, or an exception.
ParsedItem(r, n, p, o, d, u) ==
    [kind |-> "item",
     item |-> [rank |-> r, product_name |-> n, price |-> p, original_price |-> o,
               discount_pct |-> d, product_url |-> u]]
ParsedNone == [kind |-> "none"]
ParseRaises == [kind |-> "raise"]
OrNone(x) == IF Truthy(x) THEN x ELSE None

\* musinsa.py:183-226.  The source carries finalPrice and discountRatio; the
\* original price is computed from them (ZeroDivisionError at ratio 100).
MusinsaParseProduct(entry, r) ==
    IF entry.kind = "bad" THEN ParseRaises
    ELSE IF entry.name = <<>> THEN ParsedNone
    ELSE IF Truthy(entry.discount) /\ Truthy(entry.price) /\ entry.discount.val = 100
         THEN ParseRaises
    ELSE LET original_price ==
                 IF Truthy(entry.discount) /\ Truthy(entry.price)
                 THEN Some(RoundHalfEven(entry.price.val * 100, 100 - entry.discount.val))
                 ELSE None
         IN ParsedItem(r, Strip(entry.name), entry.price, original_price,
                       OrNone(entry.discount), entry.url)

\* twentynine_cm.py:187-237: price, original price and discount are taken
\* from the source as they are.
TwentynineParseProduct(entry, r) ==
    IF entry.kind = "bad" THEN ParseRaises
    ELSE IF entry.name = <<>> THEN ParsedNone
    ELSE ParsedItem(r, Strip(entry.name), entry.price, entry.original,
                    OrNone(entry.discount), entry.url)

\* wconcept.py:205-240: the same, through int().
WconceptParseProduct(entry, r) ==
    IF entry.kind = "bad" THEN ParseRaises
    ELSE IF entry.name = <<>> THEN ParsedNone
    ELSE ParsedItem(r, Strip(entry.name), entry.price, entry.original,
                    OrNone(entry.discount), entry.url)

\* zigzag.py:137-169: max_price is the original price unless it equals
\* final_price; a missing discount is computed from the two prices.
ZigzagParseItem(raw, r) ==
    IF raw.kind = "bad" THEN ParseRaises
    ELSE IF raw.name = <<>> THEN ParsedNone
    ELSE LET final_price == raw.price
             max_price == raw.original
             original_price ==
                 IF Truthy(max_price) /\ max_price # final_price THEN max_price ELSE None
             discount_rate ==
                 IF /\ ~Truthy(raw.discount)
                    /\ Truthy(original_price)
                    /\ Truthy(final_price)
                    /\ original_price.val > 0
                 THEN Some(RoundHalfEven((original_price.val - final_price.val) * 100,
                                         original_price.val))
                 ELSE raw.discount
         IN ParsedItem(r, Strip(raw.name), final_price, original_price,
                       OrNone(discount_rate), raw.url)

\* ably.py:195-248, the body of the product loop of _parse_api_responses for
\* one product (the dedup by product id is in the loop below): a missing
\* discount is computed when the original price is above the sale price.
AblyParseApiProduct(prod, r) ==
    IF prod.name = <<>> THEN ParsedNone
    ELSE IF prod.kind = "bad" THEN ParseRaises
    ELSE LET sale_price == prod.price
             original_price == prod.original
             discount ==
                 IF /\ ~Truthy(prod.discount)
                    /\ Truthy(original_price)
                    /\ Truthy(sale_price)
                    /\ original_price.val > sale_price.val
                 THEN Some(RoundHalfEven((original_price.val - sale_price.val) * 100,
                                         original_price.val))
                 ELSE prod.discount
         IN ParsedItem(r, Strip(prod.name), OrNone(sale_price), OrNone(original_price),
                       OrNone(discount), prod.url)

\* ably.py:334-373, the body of the element loop of _parse_dom: the name is
\* stripped before it is tested; no original price, no discount.
AblyParseDomElement(el, r) ==
    IF el.kind = "bad" THEN ParseRaises
    ELSE IF Strip(el.name) = <<>> THEN ParsedNone
    ELSE ParsedItem(r, Strip(el.name), el.price, None, None, el.url)

ParseRecord(parser, rec, r) ==
    CASE parser = "musinsa" -> MusinsaParseProduct(rec, r)
      [] parser = "twentynine_cm" -> TwentynineParseProduct(rec, r)
      [] parser = "wconcept" -> WconceptParseProduct(rec, r)
      [] parser = "zigzag" -> ZigzagParseItem(rec, r)
      [] parser = "ably_api" -> AblyParseApiProduct(rec, r)
      [] parser = "ably_dom" -> AblyParseDomElement(rec, r)

\* Whether the loop around the parser catches the exception of one record:
\* musinsa.py:114-124, twentynine_cm.py:123-133, wconcept.py:103-114,
\* zigzag.py:203-210 and ably.py:334-375 do; the product loop of
\* _parse_api_responses (ably.py:194-248) has no try.
CatchesPerRecord(parser) == parser # "ably_api"

\* Whether a parsed item goes into the list: musinsa.py:155-161 skips a seen
\* non-empty URL; twentynine_cm.py:126-129 and wconcept.py:106-109 keep only
\* an unseen non-empty URL; ably.py:200-203 skips a seen product id; zigzag
\* and the DOM parser keep everything.
KeepsItem(parser, url, seen) ==
    CASE parser = "musinsa" -> ~(url # "" /\ url \in seen)
      [] parser \in {"twentynine_cm", "wconcept"} -> url # "" /\ url \notin seen
      [] parser = "ably_api" -> url \notin seen
      [] OTHER -> TRUE

\* The record loop of one response: r is the rank counter, seen the URLs (or
\* product ids) met so far, items the list built so far.  The Ably API loop
\* only sees products with an sno (ably.py:291) and tests the name and the
\* product id before it advances the rank (ably.py:197-205).
RECURSIVE ParseLoop(_, _, _, _, _)
ParseLoop(parser, records, r, seen, items) ==
    IF records = <<>> THEN [raised |-> FALSE, items |-> items]
    ELSE LET rec == Head(records)
             rest == Tail(records)
         IN IF parser = "ably_api" /\ (rec.url = "" \/ rec.name = <<>> \/ rec.url \in seen)
            THEN ParseLoop(parser, rest, r, seen, items)
            ELSE LET got == ParseRecord(parser, rec, r + 1)
                 IN IF got.kind = "raise"
                    THEN IF CatchesPerRecord(parser)
                         THEN ParseLoop(parser, rest, r + 1, seen, items)
                         ELSE [raised |-> TRUE, items |-> <<>>]
                    ELSE IF got.kind = "item" /\ KeepsItem(parser, rec.url, seen)
                    THEN ParseLoop(parser, rest, r + 1,
                                   IF rec.url # "" THEN seen \cup {rec.url} ELSE seen,
                                   Append(items, got.item))
                    ELSE ParseLoop(parser, rest, r + 1, seen, items)

\* musinsa.py:172-174, twentynine_cm.py:177-179, wconcept.py:194-196 renumber
\* the list; zigzag and Ably return it as built.
Renumbers(parser) == parser \in {"musinsa", "twentynine_cm", "wconcept"}
CollectParsed(parser, records) ==
    LET got == ParseLoop(parser, records, 0, {}, <<>>)
    IN [raised |-> got.raised,
        items |-> IF Renumbers(parser) THEN Renumber(got.items) ELSE got.items]

InitParse ==
    /\ p_parser \in Parsers
    /\ p_records \in ParseResponses
    /\ p_items = <<>>
    /\ p_pc = "parse"

\* The adapter's collection applied to the records of one response.
ParseResponse ==
    /\ p_pc = "parse"
    /\ LET got == CollectParsed(p_parser, p_records)
       IN /\ p_items' = got.items
          /\ p_pc' = IF got.raised THEN "raised" ELSE "save"
    /\ UNCHANGED <<p_parser, p_records>>
    /\ UNCHANGED <<orch_vars, fetch_vars, collect_vars, req_vars, norm_vars, dom_vars, save_vars, sched_vars>>

\* scrape(): "if bestsellers: self.save_bestsellers(bestsellers)"
\* (zigzag.py:230-233 and the like), with base.py:72-99.
SaveParsed ==
    /\ p_pc = "save"
    /\ bestseller_rankings' =
           save_bestsellers(bestseller_rankings,
                            [platform |-> PlatformOf(p_parser), snapshot_date |-> today],
                            p_items, TRUE)
    /\ p_pc' = "saved"
    /\ UNCHANGED <<p_parser, p_records, p_items>>
    /\ UNCHANGED <<pc, idx, scraper_classes, results, scraper, total, exc, open_clients,
                   today, runs, faults, keyword_rankings, instagram_metrics, scrape_log,
                   written, invoked, events>>
    /\ UNCHANGED <<fetch_vars, collect_vars, req_vars, norm_vars, dom_vars, save_vars, sched_vars>>

NextParse ==
    \/ ParseResponse
    \/ SaveParsed

ParseInit == InitOrch /\ InitFetchOff /\ InitCollectOff /\ InitRequestsOff
             /\ InitParse /\ InitNormalizeOff /\ InitLaterOff
SpecParse == ParseInit /\ [][NextParse]_vars

\* ================================================================
\* normalize_category of the analysis page (src/pages/06_analysis.py)
\* ================================================================

\* Strings are sequences of characters, each Hangul syllable written as one
\* Latin letter: a, u, t for the three syllables of the key "아우터" (outer),
\* b, l, s for the other syllables of "블라우스" (blouse), h for "힐" (heel).
\* The characters of the raw category names: those of the first key and of
\* the single-character key, one character of no key, the two separators
\* and the blank.
CategoryChars == {"a", "u", "t", "h", "x", "/", ">", " "}
MaxRawLen == 3
\* Longest list handed to one save call.
MaxSaveRows == 3
\* Last moment of the scheduler clock, and the longest pipeline run, in
\* quarter days.
MaxClock == 9
MaxRunTicks == 2
RawCategories == SeqsUpTo(CategoryChars, MaxRawLen)

\* _CATEGORY_MAP (06_analysis.py:37-56) in dict order, restricted to the
\* keys that a string over CategoryChars can equal, contain or be contained
\* in: "아우터" -> "아우터" is the first key of the table, "블라우스" -> "상의"
\* the only other key with one of these syllables, "힐" -> "신발" the only
\* single-character key.
CATEGORY_MAP ==
    << [key |-> <<"a", "u", "t">>, val |-> "outer"],
       [key |-> <<"b", "l", "u", "s">>, val |-> "top"],
       [key |-> <<"h">>, val |-> "shoes"] >>
\* "기타"
CatchAll == "etc"

\* str.replace(">", "/")
ReplaceSeparator(str) == [i \in 1..Len(str) |-> IF str[i] = ">" THEN "/" ELSE str[i]]

\* str.split("/"): the segments between the separators, empty ones included.
RECURSIVE SplitFrom(_, _, _)
SplitFrom(str, cur, acc) ==
    IF str = <<>> THEN Append(acc, cur)
    ELSE IF Head(str) = "/" THEN SplitFrom(Tail(str), <<>>, Append(acc, cur))
    ELSE SplitFrom(Tail(str), Append(cur, Head(str)), acc)
Split(str) == SplitFrom(str, <<>>, <<>>)

\* [p.strip() for p in raw.replace(">", "/").split("/")]
PartsOf(raw) ==
    LET segs == Split(ReplaceSeparator(raw))
    IN [i \in 1..Len(segs) |-> Strip(segs[i])]

Reversed(s) == [i \in 1..Len(s) |-> s[Len(s) + 1 - i]]

\* a in b for two strings: b has a as a contiguous substring ("" is in
\* every string).
IsIn(a, b) ==
    \E i \in 0..(Len(b) - Len(a)) : SubSeq(b, i + 1, i + Len(a)) = a

\* part in _CATEGORY_MAP, and _CATEGORY_MAP[part]
IsKey(part) == \E j \in 1..Len(CATEGORY_MAP) : CATEGORY_MAP[j].key = part
ValueOf(part) ==
    CATEGORY_MAP[CHOOSE j \in 1..Len(CATEGORY_MAP) : CATEGORY_MAP[j].key = part].val

\* key in part or part in key
Related(key, part) == IsIn(key, part) \/ IsIn(part, key)

\* The second loop (06_analysis.py:66-69): the first part, and for it the
\* first key in dict order, that are related.
RECURSIVE FirstRelated(_)
FirstRelated(parts) ==
    IF parts = <<>> THEN CatchAll
    ELSE LET hits == {j \in 1..Len(CATEGORY_MAP) : Related(CATEGORY_MAP[j].key, Head(parts))}
         IN IF hits # {}
            THEN CATEGORY_MAP[CHOOSE j \in hits : \A k \in hits : j <= k].val
            ELSE FirstRelated(Tail(parts))

\* The first loop (06_analysis.py:63-65): the first part that is a key.
RECURSIVE FirstExact(_, _)
FirstExact(parts, all) ==
    IF parts = <<>> THEN FirstRelated(all)
    ELSE IF IsKey(Head(parts)) THEN ValueOf(Head(parts))
    ELSE FirstExact(Tail(parts), all)

normalize_category(raw) ==
    IF raw = <<>> \/ Strip(raw) = <<>> THEN CatchAll
    ELSE LET parts == Reversed(PartsOf(raw))
         IN FirstExact(parts, parts)

InitNormalize ==
    /\ n_raw \in RawCategories
    /\ n_result = "unset"

\* One call of normalize_category on the raw category name.
Normalize ==
    /\ n_result' = normalize_category(n_raw)
    /\ n_result' # n_result
    /\ UNCHANGED n_raw
    /\ UNCHANGED <<orch_vars, fetch_vars, collect_vars, req_vars, parse_vars, dom_vars, save_vars, sched_vars>>

NextNormalize == Normalize

NormalizeInit == InitOrch /\ InitFetchOff /\ InitCollectOff /\ InitRequestsOff
                 /\ InitParseOff /\ InitNormalize /\ InitLaterOff
SpecNormalize == NormalizeInit /\ [][NextNormalize]_vars

\* ================================================================
\* The DOM fallback of the Ably adapter (scrapers/ably.py:296-377)
\* ================================================================

\* ably.py:301-307, the selectors tried in order.
DOM_SELECTORS == <<"product", "goods", "item", "rank", "goods_link">>
\* ably.py:312, a selector is taken when it matches more than 5 elements.
DOM_MIN_ELEMENTS == 5

\* The elements a selector can match: one with a name, one whose name is
\* missing or blank, one on which the extraction raises.
NamedElement == RawRecord("ok", <<"A">>, Some(8000), None, None, "u1")
UnnamedElement == RawRecord("ok", <<" ">>, None, None, None, "")
DomElementKinds == {NamedElement, UnnamedElement, BadRecord}

\* The element lists a selector can return: none, or a list at or just
\* above the threshold whose first element is of any kind and whose other
\* elements have no name.
ElementList(n, first) == [i \in 1..n |-> IF i = 1 THEN first ELSE UnnamedElement]
ElementLists ==
    {<<>>} \cup {ElementList(n, f) : n \in {DOM_MIN_ELEMENTS, DOM_MIN_ELEMENTS + 1},
                                     f \in DomElementKinds}

\* ably.py:309-318: the elements of the first selector with enough matches.
RECURSIVE ProductElements(_)
ProductElements(matches) ==
    IF matches = <<>> THEN <<>>
    ELSE IF Len(Head(matches)) > DOM_MIN_ELEMENTS THEN Head(matches)
    ELSE ProductElements(Tail(matches))

InitDom ==
    /\ d_pc = "parse"
    /\ d_matches \in [1..Len(DOM_SELECTORS) -> ElementLists]
    /\ d_items = <<>>
    /\ d_debug = "none"

\* _parse_dom (ably.py:296-377): with no product elements the page HTML is
\* written to the debug file (an exception of the write is swallowed, lines
\* 323-330) and [] is returned; else the elements are parsed one by one and
\* the list is returned, whatever its length.
ParseDom ==
    /\ d_pc = "parse"
    /\ LET product_elements == ProductElements(d_matches)
       IN IF product_elements = <<>>
          THEN /\ d_debug' \in {"written", "failed"}
               /\ d_items' = <<>>
          ELSE /\ d_items' = ParseLoop("ably_dom", product_elements, 0, {}, <<>>).items
               /\ UNCHANGED d_debug
    /\ d_pc' = "returned"
    /\ UNCHANGED d_matches
    /\ UNCHANGED <<orch_vars, fetch_vars, collect_vars, req_vars, parse_vars, norm_vars,
                   save_vars, sched_vars>>

NextDom == ParseDom

DomInit == InitOrch /\ InitFetchOff /\ InitCollectOff /\ InitRequestsOff
           /\ InitParseOff /\ InitNormalizeOff /\ InitDom /\ InitSaveOff
           /\ InitSchedulerOff
SpecDom == DomInit /\ [][NextDom]_vars

\* ================================================================
\* One save call through get_connection (specification SpecSave)
\* ================================================================

\* The rows one call inserts: save_bestsellers and save_keywords insert one
\* row per element of their list (base.py:77-97, 106-120), log_scrape
\* inserts one row (base.py:126-131).
RowsOf(table, n) == [i \in 1..n |-> [table |-> table, rank |-> i]]
SaveCalls ==
    {RowsOf("bestseller_rankings", n) : n \in 0..MaxSaveRows}
        \cup {RowsOf("keyword_rankings", n) : n \in 0..MaxSaveRows}
        \cup {RowsOf("scrape_log", 1)}

\* What the store holds when the call starts: nothing, or rows that earlier
\* calls committed.
EarlierStores == {<<>>, RowsOf("scrape_log", 1), RowsOf("bestseller_rankings", 2)}

\* Where an exception of the call was raised.  "interrupt" is a
\* BaseException that is not an Exception (KeyboardInterrupt) raised inside
\* the with body: the except clause of db.py:25 does not catch it.
InsertSites == {"insert", "interrupt", "commit", "rollback"}

\* conn.commit() (db.py:24): the rows of the open transaction become part of
\* the store.
CommitKeepsStore(store, txn) == store
Commit(store, txn) == store \o txn

\* conn.rollback() (db.py:26): the open transaction is dropped.
Rollback(txn) == <<>>

\* conn.close() (db.py:29): sqlite3 discards a transaction that is still
\* open; the store keeps only what was committed.
Close(txn) == <<>>

InitSave ==
    /\ t_pc = "call"
    /\ t_rows \in SaveCalls
    /\ t_store \in EarlierStores
    /\ t_before = t_store
    /\ t_txn = <<>>
    /\ t_conn = "none"
    /\ t_exc = "none"

\* base.py:73-76 and 102-105: an empty list returns before any connection
\* is opened; otherwise the with statement enters get_connection.
SaveCall ==
    /\ t_pc = "call"
    /\ t_pc' = IF t_rows = <<>> THEN "returned" ELSE "connect"
    /\ UNCHANGED <<t_rows, t_store, t_txn, t_conn, t_exc, t_before>>
    /\ UNCHANGED <<orch_vars, fetch_vars, collect_vars, req_vars, parse_vars, norm_vars,
                   dom_vars, sched_vars>>

\* db.py:18: sqlite3.connect; its exception leaves no connection.
Connect ==
    /\ t_pc = "connect"
    /\ \/ /\ t_conn' = "open"
          /\ t_pc' = "pragma"
          /\ UNCHANGED t_exc
       \/ /\ t_exc' = "connect"
          /\ t_pc' = "propagated"
          /\ UNCHANGED t_conn
    /\ UNCHANGED <<t_rows, t_store, t_txn, t_before>>
    /\ UNCHANGED <<orch_vars, fetch_vars, collect_vars, req_vars, parse_vars, norm_vars,
                   dom_vars, sched_vars>>

\* db.py:20-21: the two PRAGMA statements run before the try; an exception
\* here propagates with the connection left open.
Pragma ==
    /\ t_pc = "pragma"
    /\ \/ /\ t_pc' = "body"
          /\ UNCHANGED t_exc
       \/ /\ t_exc' = "pragma"
          /\ t_pc' = "propagated"
    /\ UNCHANGED <<t_rows, t_store, t_txn, t_conn, t_before>>
    /\ UNCHANGED <<orch_vars, fetch_vars, collect_vars, req_vars, parse_vars, norm_vars,
                   dom_vars, sched_vars>>

\* The with body (db.py:23, base.py:77-97): executemany inserts the rows one
\* after another inside the transaction sqlite3 opened implicitly; building
\* a row or inserting it can raise, after any number of rows.
Insert ==
    /\ t_pc = "body"
    /\ \/ /\ Len(t_txn) < Len(t_rows)
          /\ t_txn' = Append(t_txn, t_rows[Len(t_txn) + 1])
          /\ UNCHANGED <<t_pc, t_exc>>
       \/ /\ Len(t_txn) = Len(t_rows)
          /\ t_pc' = "commit"
          /\ UNCHANGED <<t_txn, t_exc>>
       \/ /\ t_exc' = "insert"
          /\ t_pc' = "except"
          /\ UNCHANGED t_txn
       \/ /\ t_exc' = "interrupt"
          /\ t_pc' = "finally"
          /\ UNCHANGED t_txn
    /\ UNCHANGED <<t_rows, t_store, t_conn, t_before>>
    /\ UNCHANGED <<orch_vars, fetch_vars, collect_vars, req_vars, parse_vars, norm_vars,
                   dom_vars, sched_vars>>

\* db.py:24: conn.commit() after the body returned; its exception is caught
\* by the except clause like one of the body.
CommitTransaction ==
    /\ t_pc = "commit"
    /\ \/ /\ t_store' = Commit(t_store, t_txn)
          /\ t_txn' = <<>>
          /\ t_pc' = "finally"
          /\ UNCHANGED t_exc
       \/ /\ t_exc' = "commit"
          /\ t_pc' = "except"
          /\ UNCHANGED <<t_store, t_txn>>
    /\ UNCHANGED <<t_rows, t_conn, t_before>>
    /\ UNCHANGED <<orch_vars, fetch_vars, collect_vars, req_vars, parse_vars, norm_vars,
                   dom_vars, sched_vars>>

\* db.py:25-27: conn.rollback(), then raise.  An exception of rollback
\* itself replaces the one being handled; the finally clause runs either way.
RollbackTransaction ==
    /\ t_pc = "except"
    /\ \/ /\ t_txn' = Rollback(t_txn)
          /\ UNCHANGED t_exc
       \/ /\ t_exc' = "rollback"
          /\ UNCHANGED t_txn
    /\ t_pc' = "finally"
    /\ UNCHANGED <<t_rows, t_store, t_conn, t_before>>
    /\ UNCHANGED <<orch_vars, fetch_vars, collect_vars, req_vars, parse_vars, norm_vars,
                   dom_vars, sched_vars>>

\* db.py:28-29: conn.close(); then the call returns, or the exception in
\* flight reaches the caller of the save method.
CloseConnection ==
    /\ t_pc = "finally"
    /\ t_conn' = "closed"
    /\ t_txn' = Close(t_txn)
    /\ t_pc' = IF t_exc = "none" THEN "returned" ELSE "propagated"
    /\ UNCHANGED <<t_rows, t_store, t_exc, t_before>>
    /\ UNCHANGED <<orch_vars, fetch_vars, collect_vars, req_vars, parse_vars, norm_vars,
                   dom_vars, sched_vars>>

NextSave ==
    \/ SaveCall
    \/ Connect
    \/ Pragma
    \/ Insert
    \/ CommitTransaction
    \/ RollbackTransaction
    \/ CloseConnection

SaveInit == InitOrch /\ InitFetchOff /\ InitCollectOff /\ InitRequestsOff
            /\ InitParseOff /\ InitNormalizeOff /\ InitDomOff /\ InitSave
            /\ InitSchedulerOff
SpecSave == SaveInit /\ [][NextSave]_vars

\* ================================================================
\* The scheduler (specification SpecScheduler)
\* ================================================================

\* The clock counts quarter days; config.py:73 SCRAPE_TIMES = ["06:00",
\* "18:00"] are the quarters 1 and 3 of every day.
TicksPerDay == 4
SCRAPE_TIMES == <<1, 3>>
Jobs == 1..Len(SCRAPE_TIMES)

\* schedule.every().day.at(t): the next run of a job is the first moment
\* after now at which the clock shows t.
RECURSIVE NextRun(_, _)
NextRun(t, now) ==
    IF (now + 1) % TicksPerDay = t THEN now + 1 ELSE NextRun(t, now + 1)

\* schedule.run_pending(): the jobs whose next_run has come, earliest first.
Due(next, now) == {j \in Jobs : next[j] <= now}
RECURSIVE Sorted(_, _)
Sorted(jobs, next) ==
    IF jobs = {} THEN <<>>
    ELSE LET j == CHOOSE a \in jobs : \A b \in jobs : next[a] < next[b] \/ (next[a] = next[b] /\ a <= b)
         IN <<j>> \o Sorted(jobs \ {j}, next)

\* How a pipeline run can end inside _scheduled_run: run_all_scrapers
\* returned, raised an Exception, or a KeyboardInterrupt arrived (which is
\* not an Exception).
RunOutcomes == {"returned", "raised", "interrupted"}

\* scheduler.py:16-23 and 37-39, 52-57: where control goes when the pipeline
\* run ends.  The except of line 22 catches an Exception, so the wrapper
\* returns normally; with --now main then returns; a KeyboardInterrupt
\* leaves the wrapper and ends the process in either mode.
AfterRunUncaught(mode, outcome) ==
    IF outcome = "returned" /\ mode = "loop" THEN "job" ELSE "exited"
AfterRun(mode, outcome) ==
    IF outcome = "interrupted" \/ mode = "now" THEN "exited" ELSE "job"

InitScheduler ==
    /\ h_pc = "main"
    /\ h_mode \in {"now", "loop"}
    /\ h_now \in 0..(TicksPerDay - 1)
    /\ h_next = <<>>
    /\ h_queue = <<>>
    /\ h_active = 0
    /\ h_started = 0
    /\ h_outcomes = <<>>
    /\ h_pending_at = 0

\* scheduler.py:26-49: with --now the wrapper is called at once; otherwise a
\* daily job is registered for every configured time.
Main ==
    /\ h_pc = "main"
    /\ IF h_mode = "now"
       THEN /\ h_pc' = "run"
            /\ h_active' = h_active + 1
            /\ h_started' = h_started + 1
            /\ UNCHANGED h_next
       ELSE /\ h_pc' = "pending"
            /\ h_next' = [j \in Jobs |-> NextRun(SCRAPE_TIMES[j], h_now)]
            /\ UNCHANGED <<h_active, h_started>>
    /\ UNCHANGED <<h_mode, h_now, h_queue, h_outcomes, h_pending_at>>
    /\ UNCHANGED <<orch_vars, fetch_vars, collect_vars, req_vars, parse_vars, norm_vars,
                   dom_vars, save_vars>>

\* scheduler.py:53: schedule.run_pending() collects the runnable jobs.
RunPending ==
    /\ h_pc = "pending"
    /\ h_queue' = Sorted(Due(h_next, h_now), h_next)
    /\ h_pending_at' = h_now
    /\ h_pc' = "job"
    /\ UNCHANGED <<h_mode, h_now, h_next, h_active, h_started, h_outcomes>>
    /\ UNCHANGED <<orch_vars, fetch_vars, collect_vars, req_vars, parse_vars, norm_vars,
                   dom_vars, save_vars>>

\* run_pending runs the collected jobs one after another in the calling
\* thread; when none is left it returns and the loop sleeps (line 54).
JobStart ==
    /\ h_pc = "job"
    /\ IF h_queue = <<>>
       THEN /\ h_pc' = "sleep"
            /\ UNCHANGED <<h_active, h_started>>
       ELSE /\ h_pc' = "run"
            /\ h_active' = h_active + 1
            /\ h_started' = h_started + 1
    /\ UNCHANGED <<h_mode, h_now, h_next, h_queue, h_outcomes, h_pending_at>>
    /\ UNCHANGED <<orch_vars, fetch_vars, collect_vars, req_vars, parse_vars, norm_vars,
                   dom_vars, save_vars>>

\* _scheduled_run (scheduler.py:14-23) ends after the pipeline run took some
\* time; in loop mode the job that returned is scheduled for its next day.
JobEnd ==
    /\ h_pc = "run"
    /\ \E outcome \in RunOutcomes, took \in 0..MaxRunTicks :
        /\ h_now + took <= MaxClock
        /\ h_now' = h_now + took
        /\ h_active' = h_active - 1
        /\ h_outcomes' = Append(h_outcomes, outcome)
        /\ h_pc' = AfterRun(h_mode, outcome)
        /\ IF h_mode = "loop" /\ h_pc' = "job"
           THEN /\ h_next' = [h_next EXCEPT ![Head(h_queue)] =
                                 NextRun(SCRAPE_TIMES[Head(h_queue)], h_now')]
                /\ h_queue' = Tail(h_queue)
           ELSE UNCHANGED <<h_next, h_queue>>
    /\ UNCHANGED <<h_mode, h_started, h_pending_at>>
    /\ UNCHANGED <<orch_vars, fetch_vars, collect_vars, req_vars, parse_vars, norm_vars,
                   dom_vars, save_vars>>

\* scheduler.py:54-57: time.sleep(30) ends and the loop goes round, or a
\* KeyboardInterrupt ends the process through sys.exit(0).
Sleep ==
    /\ h_pc = "sleep"
    /\ \/ /\ h_now < MaxClock
          /\ h_now' = h_now + 1
          /\ h_pc' = "pending"
       \/ /\ h_pc' = "exited"
          /\ UNCHANGED h_now
    /\ UNCHANGED <<h_mode, h_next, h_queue, h_active, h_started, h_outcomes, h_pending_at>>
    /\ UNCHANGED <<orch_vars, fetch_vars, collect_vars, req_vars, parse_vars, norm_vars,
                   dom_vars, save_vars>>

NextScheduler ==
    \/ Main
    \/ RunPending
    \/ JobStart
    \/ JobEnd
    \/ Sleep

SchedulerInit == InitOrch /\ InitFetchOff /\ InitCollectOff /\ InitRequestsOff
                 /\ InitParseOff /\ InitNormalizeOff /\ InitDomOff /\ InitSaveOff
                 /\ InitScheduler
SpecScheduler == SchedulerInit /\ [][NextScheduler]_vars

\* ================================================================
\* Properties of the orchestrator and the store (specification Spec)
\* ================================================================

Loaded == Range(scraper_classes)
EventsOf(kind) == SelectSeq(events, LAMBDA ev : ev[1] = kind)
NamesOf(evs) == [i \in 1..Len(evs) |-> evs[i][2]]
CountOf(kind, name) == Cardinality({i \in 1..Len(events) : events[i] = <<kind, name>>})

\* C1: partial-failure isolation.  When run_all_scrapers has returned, every
\* loaded adapter was constructed and has an outcome, an adapter whose
\* constructor raised has a failed outcome, and every failed outcome carries a
\* non-empty error message.
C1_PartialFailureIsolation ==
    pc = "returned" =>
        /\ DOMAIN results = Loaded
        /\ \A n \in Loaded :
            /\ CountOf("construct", n) = 1
            /\ results[n].status \in {"success", "failed"}
            /\ CountOf("init_raised", n) = 1 => results[n].status = "failed"
            /\ results[n].status = "failed" => results[n].error # ""

\* C3 as claimed: when run_all_scrapers has returned, every loaded adapter
\* was constructed exactly once and run exactly once, in registration order,
\* and the map has exactly one entry per loaded adapter.
C3_EachConstructedAndRunOnce ==
    pc = "returned" =>
        /\ NamesOf(EventsOf("construct")) = scraper_classes
        /\ NamesOf(EventsOf("run")) = scraper_classes
        /\ DOMAIN results = Loaded

\* The registration order the claim names.
RegistrationOrder == <<"musinsa", "twentynine_cm", "wconcept", "zigzag", "ably">>
IsSubsequence(s, t) ==
    \E f \in [1..Len(s) -> 1..Len(t)] :
        /\ \A i \in 1..Len(s) : t[f[i]] = s[i]
        /\ \A i, j \in 1..Len(s) : i < j => f[i] < f[j]

\* C3 as amended: at every point of a run the constructor calls made so far
\* are the first loaded adapters in registration order, each made once; run()
\* has been called exactly on the constructed adapters whose constructor did
\* not raise, once each and directly after the constructor; and when
\* run_all_scrapers has returned every loaded adapter was constructed and the
\* map has exactly one entry per loaded adapter.
C3_AttemptedOnceInOrder ==
    LET constructed == NamesOf(EventsOf("construct"))
        ran == NamesOf(EventsOf("run"))
    IN /\ IsSubsequence(scraper_classes, RegistrationOrder)
       /\ Len(constructed) <= Len(scraper_classes)
       /\ constructed = SubSeq(scraper_classes, 1, Len(constructed))
       /\ ran = SelectSeq(constructed,
                          LAMBDA n : /\ CountOf("init_raised", n) = 0
                                     /\ ~(pc = "scrape_bs" /\ scraper.platform = n))
       /\ \A i \in 1..Len(events) :
            events[i][1] = "run" => i > 1 /\ events[i - 1] = <<"construct", events[i][2]>>
       /\ pc = "returned" =>
            /\ constructed = scraper_classes
            /\ DOMAIN results = Loaded

\* Witness for C3: a run has returned in which all four loadable adapters
\* were attempted, one constructor raised and the other three adapters ran.
C3_Witness ==
    /\ pc = "returned"
    /\ Len(scraper_classes) = 4
    /\ Len(EventsOf("init_raised")) = 1
    /\ Len(EventsOf("run")) = 3

\* C4: a module-load failure never aborts the batch: no exception raised by
\* an import leaves run_all_scrapers, and the function returns an outcome
\* for each adapter that loaded.
C4_ModuleLoadFailureIsolated ==
    /\ pc # "aborted"
    /\ pc = "returned" => DOMAIN results = Loaded

\* C5: every adapter invocation with a recorded outcome appended exactly one
\* scrape_log row.
C5_OneLogRowPerInvocation ==
    \A n \in DOMAIN results : invoked[n].log = 1

\* C6: within each (platform, snapshot_date) partition of bestseller_rankings
\* no non-empty product_url appears in more than one row.
C6_UrlUniquePerPartition ==
    \A i, j \in 1..Len(bestseller_rankings) :
        (/\ i # j
         /\ bestseller_rankings[i].platform = bestseller_rankings[j].platform
         /\ bestseller_rankings[i].snapshot_date = bestseller_rankings[j].snapshot_date
         /\ bestseller_rankings[i].product_url # "")
        => bestseller_rankings[i].product_url # bestseller_rankings[j].product_url

IsPrefix(s, t) == Len(s) <= Len(t) /\ SubSeq(t, 1, Len(s)) = s

\* C9: the store is append-only: every step leaves each row of the four
\* tables in place and unchanged; rows are only added after them.
C9_AppendOnly ==
    [][/\ IsPrefix(bestseller_rankings, bestseller_rankings')
       /\ IsPrefix(keyword_rankings, keyword_rankings')
       /\ IsPrefix(instagram_metrics, instagram_metrics')
       /\ IsPrefix(scrape_log, scrape_log')]_vars

\* Witness for C9: a second run, in which an adapter failed, has written on
\* top of the rows of the first run.
C9_Witness ==
    /\ runs = 2
    /\ pc = "returned"
    /\ Len(bestseller_rankings) >= 5
    /\ Len(keyword_rankings) >= 1
    /\ \E i \in 1..Len(scrape_log) : i > 4 /\ scrape_log[i].status = "failed"

\* C10: an invocation that ended with status=failed persisted no
\* bestseller_rankings or keyword_rankings row.
C10_FailedPersistsNothing ==
    \A n \in DOMAIN results :
        results[n].status = "failed" => invoked[n].bs = 0 /\ invoked[n].kw = 0

\* C15: the HTTP client of every adapter the orchestrator constructed is
\* closed before the next adapter is started, and no client is open after
\* run_all_scrapers has returned.
C15_ClientClosedBeforeNext ==
    pc \in {"construct", "returned"} => open_clients = 0

\* The rows of the two ranking tables, as one sequence.
RankingRows == bestseller_rankings \o keyword_rankings

\* C21: all records persisted by one pipeline run carry the same
\* snapshot_date (stated for the first run, which starts from empty tables:
\* every row then comes from that run).
C21_OneSnapshotDatePerRun ==
    runs = 1 =>
        \A i, j \in 1..Len(RankingRows) :
            RankingRows[i].snapshot_date = RankingRows[j].snapshot_date

\* The scrape_log row the invocation of platform n wrote: the last row of
\* that platform.
LogRowsOf(n) == SelectSeq(scrape_log, LAMBDA row : row.platform = n)
LastLogRowOf(n) == LogRowsOf(n)[Len(LogRowsOf(n))]

\* C27: for every invocation that ends with status=success, items_collected
\* of its scrape_log row and the item count of the orchestrator's outcome
\* both equal the number of bestseller and keyword rows it persisted.
C27_CountsMatchRows ==
    \A n \in DOMAIN results :
        results[n].status = "success" =>
            /\ invoked[n].log = 1
            /\ LastLogRowOf(n).status = "success"
            /\ LastLogRowOf(n).items_collected = invoked[n].bs + invoked[n].kw
            /\ results[n].items = invoked[n].bs + invoked[n].kw

\* Witness for C27: an invocation of Musinsa succeeded with one bestseller
\* row and one keyword row persisted and the count 2.
C27_Witness ==
    /\ "musinsa" \in DOMAIN results
    /\ results["musinsa"] = Success(2)
    /\ invoked["musinsa"].bs = 1
    /\ invoked["musinsa"].kw = 1
    /\ LastLogRowOf("musinsa").items_collected = 2

\* C28: for every adapter the orchestrator attempted, the status of its
\* entry in the outcome map equals the status of the scrape_log row written
\* for the invocation (and such a row exists).
C28_OutcomeMatchesLog ==
    \A n \in DOMAIN results :
        /\ invoked[n].log = 1
        /\ LastLogRowOf(n).status = results[n].status

\* ================================================================
\* Properties of the collection loops (specification SpecCollect)
\* ================================================================

UrlsOf(items) == [i \in 1..Len(items) |-> items[i].product_url]
RanksOf(items) == [i \in 1..Len(items) |-> items[i].rank]
NonEmptyUrls(items) == SelectSeq(UrlsOf(items), LAMBDA u : u # "")
NoDuplicates(s) == \A i, j \in 1..Len(s) : i # j => s[i] # s[j]

\* C7: dense ranking.  The list a finished bestseller collection returns
\* carries the ranks 1..N, each once.
C7_DenseRanking ==
    c_pc = "done" =>
        /\ Range(RanksOf(all_items)) = 1..Len(all_items)
        /\ NoDuplicates(RanksOf(all_items))

\* C8: Musinsa's collection keeps each non-empty product URL once, in the
\* order in which the URLs first occurred in the query results, and the
\* returned list is numbered 1..N in that order.
C8_MusinsaFirstSeenDedup ==
    adapter = "musinsa" =>
        /\ NoDuplicates(NonEmptyUrls(all_items))
        /\ NonEmptyUrls(all_items) = first_seen
        /\ c_pc = "done" => RanksOf(all_items) = [i \in 1..Len(all_items) |-> i]

\* Witness for C8: overlapping query results (one record repeated a URL seen
\* before) gave u1, u2, u3 ranked 1 to 3.
C8_Witness ==
    /\ adapter = "musinsa"
    /\ c_pc = "done"
    /\ repeats = 1
    /\ UrlsOf(all_items) = <<"u1", "u2", "u3">>
    /\ RanksOf(all_items) = <<1, 2, 3>>

\* ================================================================
\* Properties of the requests of one invocation (specification SpecRequests)
\* ================================================================

\* C11: an invocation all of whose network requests failed with a transport
\* error ends with status failed, never with status success.
C11_AllRequestsFailedMeansFailed ==
    (q_pc = "done" /\ q_requests > 0 /\ q_failures = q_requests)
        => q_status = "failed"

\* C12: every request that ends with a transport error has been attempted
\* MAX_RETRIES times before the adapter takes it as failed.
C12_FailedRequestsWereRetried ==
    [][q_failures' > q_failures => q_attempts' = MAX_RETRIES]_vars

\* C16: no two consecutive network requests of an invocation follow each
\* other without a random_delay sleep between them.
C16_DelayBetweenRequests == ~q_adjacent

\* C17: Musinsa's scrape() never raises because the collection of one data
\* type failed: the invocation ends with success, and the bestsellers that
\* were collected have been saved whatever happened to the keywords.
C17_DataTypesIndependent ==
    (q_adapter = "musinsa" /\ q_pc = "done")
        => /\ q_status = "success"
           /\ q_saved.bs = (q_bestsellers > 0)

\* The requests of one kind in the log, and what they asked for.
LogOf(what) == SelectSeq(q_log, LAMBDA r : r.what = what)
ArgsOf(log) == [i \in 1..Len(log) |-> log[i].arg]

\* The entries of a listing in front of the first one that is not an object.
RECURSIVE ReadablePrefix(_)
ReadablePrefix(listing) ==
    IF listing = <<>> \/ Head(listing) = NotADict THEN <<>>
    ELSE <<Head(listing)>> \o ReadablePrefix(Tail(listing))

\* One request at offset 0 for each entry with a non-empty code other than
\* the primary code, in the order of the listing.
ExpectedSubRequests(listing) ==
    LET codes == SelectSeq(listing, LAMBDA c : c # NotADict /\ Usable(c))
    IN [i \in 1..Len(codes) |-> <<codes[i], 0>>]

\* What both readings of the 29CM claim share: the page requests come first,
\* at offsets 0, 100, 200 in that order and at most three of them, then the
\* category listing, then the subcategories.
TwentynineRequestShape ==
    /\ q_log = LogOf("main") \o LogOf("categories") \o LogOf("sub")
    /\ Len(LogOf("main")) \in 1..3
    /\ \A i \in 1..Len(LogOf("main")) : LogOf("main")[i].arg = (i - 1) * 100
    /\ Len(LogOf("categories")) = 1

ZigzagRequestShape ==
    /\ Len(q_log) <= 3
    /\ q_log # <<>> => q_log[1].arg = "None"
    /\ \A i \in 2..Len(q_log) :
        /\ q_log[i].arg = q_log[i - 1].out.end_cursor
        /\ q_log[i - 1].out.class # "failed"
        /\ q_log[i - 1].out.has_next

\* The page loop makes progress: every request uses up one of the
\* _MAX_PAGES iterations.
ZigzagLoopProgress ==
    q_adapter = "zigzag" => (q_i' = q_i + 1 /\ q_i' <= 3)

\* C23 as stated: the first request carries a null cursor, each later
\* request the end_cursor of the preceding response, and the loop issues
\* requests until a response has has_next false or 3 requests have been
\* made, never more than 3; the loop terminates.
C23_ZigzagPagination ==
    q_adapter = "zigzag" =>
        /\ ZigzagRequestShape
        /\ (q_pc = "done" /\ Len(q_log) < 3) =>
               /\ q_log[Len(q_log)].out.class # "failed"
               /\ ~q_log[Len(q_log)].out.has_next

\* The loop has ended before the ceiling only after a response without
\* has_next or without end_cursor, or after a request that failed.
ZigzagStoppedForCause ==
    (q_pc = "done" /\ Len(q_log) < 3) =>
        \/ q_log[Len(q_log)].out.class = "failed"
        \/ ~q_log[Len(q_log)].out.has_next
        \/ q_log[Len(q_log)].out.end_cursor = "None"

\* C23 as amended: the loop also ends at a response that names no
\* end_cursor and at a request that fails.
C23_ZigzagPaginationAmended ==
    /\ [](q_adapter = "zigzag" => (ZigzagRequestShape /\ ZigzagStoppedForCause))
    /\ [][ZigzagLoopProgress]_vars

\* Witness for C23: three requests, carrying the null cursor and then the two
\* cursors the responses returned.
C23_Witness ==
    /\ q_adapter = "zigzag"
    /\ q_pc = "done"
    /\ ArgsOf(q_log) = <<"None", "c1", "c2">>

\* The 24 combinations, sections outer and categories inner.
CombinationsOfSection(s) ==
    [j \in 1..Len(WOMEN_CATEGORIES) |-> <<RANKING_SECTIONS[s], WOMEN_CATEGORIES[j]>>]
AllCombinations ==
    CombinationsOfSection(1) \o CombinationsOfSection(2) \o CombinationsOfSection(3)

\* C24: the Musinsa bestseller collection issues exactly one request for
\* each of the 24 (section, category) combinations, in enumeration order,
\* whatever the outcome of earlier requests, and what earlier requests
\* collected is kept.
C24_MusinsaAllCombinations ==
    /\ [](q_adapter = "musinsa" =>
            /\ ArgsOf(LogOf("section"))
                 = SubSeq(AllCombinations, 1, Len(LogOf("section")))
            /\ q_pc \in {"keywords", "done"} => ArgsOf(LogOf("section")) = AllCombinations)
    /\ [][q_adapter = "musinsa" => q_bestsellers' >= q_bestsellers]_vars

\* Witness for C24: all 24 requests were made although some of them failed,
\* and the list is not empty.
C24_Witness ==
    /\ q_adapter = "musinsa"
    /\ q_pc = "keywords"
    /\ q_failures > 0
    /\ q_bestsellers > 0
    /\ Len(LogOf("section")) = 24

\* ================================================================
\* Properties of the parsers (specification SpecParse)
\* ================================================================

NamesAndUrls(items) ==
    [i \in 1..Len(items) |-> <<items[i].product_name, items[i].product_url>>]
WithoutBad(records) == SelectSeq(records, LAMBDA rec : rec.kind # "bad")

\* C13: a record whose parse raises is skipped alone: the collection does
\* not abort, and it returns the products it returns for the same response
\* without that record.
C13_RecordFailureIsolated ==
    /\ p_pc # "raised"
    /\ p_pc \in {"save", "saved"} =>
           NamesAndUrls(p_items)
               = NamesAndUrls(CollectParsed(p_parser, WithoutBad(p_records)).items)

\* The adapters whose source carries an original price next to the price
\* (musinsa computes it from the discount; the DOM parser has none).
SourceGivesOriginalPrice(parser) ==
    parser \in {"twentynine_cm", "wconcept", "zigzag", "ably_api"}

\* C14: a parsed record whose source gives a price and an original price but
\* no discount carries discount_pct = round((1 - price/original_price) * 100).
C14_DiscountBackfill ==
    (/\ p_pc \in {"save", "saved"}
     /\ SourceGivesOriginalPrice(p_parser)
     /\ Len(p_records) = 1
     /\ Len(p_items) = 1
     /\ p_records[1].discount = None
     /\ Truthy(p_records[1].price)
     /\ Truthy(p_records[1].original)
     /\ p_records[1].original # p_records[1].price)
    => p_items[1].discount_pct
         = Some(RoundHalfEven((p_records[1].original.val - p_records[1].price.val) * 100,
                              p_records[1].original.val))

\* C19: every row of bestseller_rankings has a non-empty product_name.
C19_PersistedNameNonEmpty ==
    \A i \in 1..Len(bestseller_rankings) : bestseller_rankings[i].product_name # <<>>

\* C20: every product record a parser returns has discount_pct absent or
\* an integer between 0 and 100.
C20_DiscountInRange ==
    \A i \in 1..Len(p_items) :
        \/ p_items[i].discount_pct = None
        \/ /\ p_items[i].discount_pct.val >= 0
           /\ p_items[i].discount_pct.val <= 100

\* The adapters whose collection deduplicates by product URL.
UrlDedupParsers == {"musinsa", "twentynine_cm", "wconcept"}

\* The three parsers take every record of the response the same way (a
\* product, no product, an exception), so that the three dedup loops are fed
\* the same parsed records.
SameParsedRecords(records) ==
    \A i \in 1..Len(records) : \A a, b \in UrlDedupParsers :
        ParseRecord(a, records[i], i).kind = ParseRecord(b, records[i], i).kind

\* C25: the Musinsa, 29CM and W Concept adapters apply the same URL-based
\* deduplication: on the same sequence of parsed records the three loops
\* return the same list of products, a record without product URL included.
C25_SameDedup ==
    (/\ p_pc \in {"save", "saved"}
     /\ p_parser \in UrlDedupParsers
     /\ SameParsedRecords(p_records)) =>
        \A other \in UrlDedupParsers :
            NamesAndUrls(p_items)
                = NamesAndUrls(CollectParsed(other, p_records).items)

\* ================================================================
\* Properties of normalize_category (specification SpecNormalize)
\* ================================================================

\* Whether some non-empty segment of raw equals a key, contains one or is
\* contained in one.
SomeSegmentRelated(raw) ==
    \E i \in 1..Len(PartsOf(raw)) :
        /\ PartsOf(raw)[i] # <<>>
        /\ \E j \in 1..Len(CATEGORY_MAP) : Related(CATEGORY_MAP[j].key, PartsOf(raw)[i])

\* C18: normalize_category returns the catch-all bucket for the empty or
\* whitespace-only string and for every input none of whose non-empty
\* segments equals a key or is in a substring relation with one, an input
\* with an empty segment (a trailing separator) included.
C18_UnmatchedIsCatchAll ==
    (n_result # "unset" /\ (Strip(n_raw) = <<>> \/ ~SomeSegmentRelated(n_raw)))
        => n_result = CatchAll

\* ================================================================
\* Properties of the DOM fallback (specification SpecDom)
\* ================================================================

\* C26: whenever the DOM fallback returns zero products, because no
\* candidate elements were found or because every candidate element lacked
\* a name, the page HTML was written to the debug file first (an attempt
\* whose write failed counts).
C26_DebugDumpOnZeroProducts ==
    (d_pc = "returned" /\ d_items = <<>>) => d_debug # "none"

\* ================================================================
\* Properties of a save call (specification SpecSave)
\* ================================================================

\* C29: each save call is one all-or-nothing transaction: after an exception
\* while inserting (or committing) none of the call's rows are in the store,
\* no transaction is left open, the exception reaches the caller and the
\* connection is closed; a call that returns has committed all its rows.
C29_SaveIsAllOrNothing ==
    /\ (t_exc \in InsertSites /\ t_pc \in {"returned", "propagated"}) =>
           /\ t_pc = "propagated"
           /\ t_store = t_before
           /\ t_txn = <<>>
           /\ t_conn = "closed"
    /\ t_pc = "returned" =>
           /\ t_exc = "none"
           /\ t_store = t_before \o t_rows
           /\ t_txn = <<>>
           /\ t_rows # <<>> => t_conn = "closed"

\* Witness for C29: a call of three rows into a store that already had rows
\* failed while inserting; the exception reached the caller, the connection
\* is closed and the store is as it was before the call.
C29_Witness ==
    /\ t_pc = "propagated"
    /\ t_exc = "insert"
    /\ Len(t_rows) = 3
    /\ t_before # <<>>
    /\ t_store = t_before
    /\ t_conn = "closed"

\* ================================================================
\* Properties of the scheduler (specification SpecScheduler)
\* ================================================================

\* In loop mode a pipeline run that raised is followed by the rest of
\* run_pending, with every job still registered and scheduled.
RaisedRunIsSurvived ==
    (h_mode = "loop" /\ h_pc = "run" /\ h_pc' # "run"
        /\ h_outcomes'[Len(h_outcomes')] = "raised")
    => (h_pc' = "job" /\ DOMAIN h_next' = Jobs
        /\ \A j \in Jobs : h_next'[j] >= h_next[j])

\* C30: in loop mode an exception escaping a pipeline run does not end the
\* loop and every later scheduled run is still triggered (when the loop
\* sleeps, no job is left whose time had come when run_pending started);
\* two pipeline runs never overlap; with --now exactly one pipeline run is
\* performed and the process then exits.
C30_SchedulerSurvivesFailures ==
    /\ [](/\ h_active <= 1
          /\ (h_mode = "loop" /\ h_pc = "sleep") =>
                 \A j \in Jobs : h_next[j] > h_pending_at
          /\ h_mode = "now" => h_started <= 1
          /\ (h_mode = "now" /\ h_pc = "exited") => (h_started = 1 /\ h_active = 0))
    /\ [][RaisedRunIsSurvived]_vars
    /\ [][(h_mode = "now" /\ h_pc = "run") => h_pc' = "exited"]_vars

\* Witness for C30: in loop mode a pipeline run raised, the loop went on and
\* a later scheduled run was started.
C30_Witness ==
    /\ h_mode = "loop"
    /\ h_pc = "run"
    /\ Len(h_outcomes) >= 1
    /\ h_outcomes[1] = "raised"
    /\ h_started = Len(h_outcomes) + 1
====
